---- MODULE Spec2Model ----
(***************************************************************************)
(* powderkeg: chunked cellular-automaton simulation.                       *)
(* Model of the chunk / stain / grid addressing layer and of the two-phase *)
(* tick scheduler simulate_powderkeg (src/src/simulation.rs).              *)
(*                                                                         *)
(* Points are pairs <<x, y>>; rectangles are records [min, max] with       *)
(* inclusive corners, as the source uses bevy's IRect.  The f32            *)
(* accumulator is kept in fixed point: Scale units make one virtual tick.  *)
(***************************************************************************)
EXTENDS Integers, Sequences, FiniteSets, TLC

(* ------------------------------------------------------------------ *)
(* Bounds and program constants                                        *)
(* ------------------------------------------------------------------ *)

\* chunk side length, the const generic N of Chunk<T, N>
N == 4

\* fixed-point denominator of the accumulator and of the elapsed time:
\* Scale units = 1.0
Scale == 10

\* number of discrete steps in one run of the grid scenarios
MaxSteps == 2

\* number of discrete steps in one run of the accumulator scenarios
MaxFrameSteps == 4

(* ------------------------------------------------------------------ *)
(* IVec2 / IRect arithmetic                                            *)
(* ------------------------------------------------------------------ *)

\* With(e, LAMBDA x : body) is body with x bound to e ("let x = e;")
With(v, F(_)) == F(v)

Min(a, b) == IF a <= b THEN a ELSE b

Max(a, b) == IF a >= b THEN a ELSE b

VAdd(p, q) == <<p[1] + q[1], p[2] + q[2]>>

VSub(p, q) == <<p[1] - q[1], p[2] - q[2]>>

VScale(k, p) == <<k * p[1], k * p[2]>>

VMin(p, q) == <<Min(p[1], q[1]), Min(p[2], q[2])>>

VMax(p, q) == <<Max(p[1], q[1]), Max(p[2], q[2])>>

IRect(lo, hi) == [min |-> lo, max |-> hi]

\* IRect::from_corners(p0, p1)
from_corners(p0, p1) == IRect(VMin(p0, p1), VMax(p0, p1))

\* IRect::from_center_half_size(origin, half)
from_center_half_size(origin, half) == IRect(VSub(origin, half), VAdd(origin, half))

\* IRect::union
rect_union(r, s) == IRect(VMin(r.min, s.min), VMax(r.max, s.max))

\* IRect::union_point
rect_union_point(r, p) == IRect(VMin(r.min, p), VMax(r.max, p))

\* IRect::intersect: component-wise max of the mins and min of the maxes,
\* then min is collapsed onto max so that min <= max always holds
\* ("r.min = r.min.min(r.max)" in bevy_math)
rect_intersect(r, s) ==
    IRect(VMin(VMax(r.min, s.min), VMin(r.max, s.max)), VMin(r.max, s.max))

\* a translation that leaves the rectangle where it is
translate_rect_none(rect, offset) == rect

translate_rect(rect, offset) == IRect(VAdd(rect.min, offset), VAdd(rect.max, offset))

rect_contains_inclusive(rect, point) ==
    /\ rect.min[1] <= point[1] /\ point[1] <= rect.max[1]
    /\ rect.min[2] <= point[2] /\ point[2] <= rect.max[2]

\* the integer points of a rectangle (none when min > max on an axis)
RectPoints(r) == (r.min[1] .. r.max[1]) \X (r.min[2] .. r.max[2])

(* ------------------------------------------------------------------ *)
(* Area (src/src/area.rs)                                              *)
(* ------------------------------------------------------------------ *)

AreaEmpty == [tag |-> "Empty", rects |-> <<>>]

AreaOf(rect) == [tag |-> "Area", rects |-> <<rect>>]

AreaMany(rects) == [tag |-> "Many", rects |-> rects]

Area_contains(area, point) ==
    \E i \in 1 .. Len(area.rects) : rect_contains_inclusive(area.rects[i], point)

\* Area::is_empty
Area_is_empty(area) == area.tag = "Empty"

\* IRect::is_empty of the math library: no extent along some axis
IRect_is_empty(rect) == rect.min[1] >= rect.max[1] \/ rect.min[2] >= rect.max[2]

\* Stain::is_empty
Stain_is_empty(stain) ==
    CASE stain.tag = "Empty" -> TRUE
      [] stain.tag = "Area"  -> IRect_is_empty(stain.rects[1])
      [] OTHER               -> \A i \in 1 .. Len(stain.rects) : IRect_is_empty(stain.rects[i])

\* the points apply / apply_randomly hand to the visitor (as a set; a
\* single-rectangle area yields each point once)
Area_points(area) == UNION {RectPoints(area.rects[i]) : i \in 1 .. Len(area.rects)}

\* the points of one rectangle as the loops over y and then x produce them
RowMajor(rect) ==
    With(rect.max[1] - rect.min[1] + 1, LAMBDA w :
    With(rect.max[2] - rect.min[2] + 1, LAMBDA h :
        IF w <= 0 \/ h <= 0 THEN <<>>
        ELSE [k \in 1 .. w * h |-> <<rect.min[1] + ((k - 1) % w), rect.min[2] + ((k - 1) \div w)>>]))

\* the same for a list of rectangles, one after the other
RECURSIVE RowMajorAll(_)
RowMajorAll(rects) ==
    IF rects = <<>> THEN <<>>
    ELSE RowMajor(Head(rects)) \o RowMajorAll(Tail(rects))

\* a traversal that runs backwards
Area_apply_reversed(area) ==
    [k \in 1 .. Len(RowMajorAll(area.rects)) |->
        RowMajorAll(area.rects)[Len(RowMajorAll(area.rects)) + 1 - k]]

\* Area::apply: the sequence of points handed to the visitor
Area_apply(area) == RowMajorAll(area.rects)

\* Area::apply_randomly, lines 37-54: the points collected before the shuffle
Area_choices(area) == RowMajorAll(area.rects)

\* a shuffle that hands out one of the points over and over
shuffle_repeat(choices, perm) == [i \in 1 .. Len(choices) |-> choices[perm[1]]]

\* SliceRandom::shuffle: the outcome is the permutation perm of the slice
shuffle(choices, perm) == [i \in 1 .. Len(choices) |-> choices[perm[i]]]

\* Area::apply_randomly: the sequence of points handed to the visitor when
\* the shuffle comes out as perm
Area_apply_randomly(area, perm) == shuffle(Area_choices(area), perm)

\* a from_areas that keeps the first area only
Area_from_areas_first(areas) ==
    IF areas = <<>> \/ Head(areas).rects = <<>> THEN AreaEmpty ELSE AreaMany(Head(areas).rects)

RECURSIVE Area_concat(_)
Area_concat(areas) ==
    IF areas = <<>> THEN <<>>
    ELSE Head(areas).rects \o Area_concat(Tail(areas))

Area_from_areas(areas) ==
    With(Area_concat(areas), LAMBDA final_stains :
        IF Len(final_stains) = 0 THEN AreaEmpty ELSE AreaMany(final_stains))

Area_translate(area, offset) ==
    [area EXCEPT !.rects = [i \in 1 .. Len(area.rects) |-> translate_rect(area.rects[i], offset)]]

\* a cover test that looks at the far corner of the rectangle only
area_contains_corner(rect, area) == Area_contains(area, rect.max)

area_contains(rect, area) ==
    \A x \in rect.min[1] .. rect.max[1] :
        \A y \in rect.min[2] .. rect.max[2] : Area_contains(area, <<x, y>>)

(* ------------------------------------------------------------------ *)
(* Cells (implementations of trait Cell, src/src/cell.rs)              *)
(* ------------------------------------------------------------------ *)

\* reference cell types:
\*   Air   inert
\*   Fall  swaps with an Air cell directly below (y + 1)
\*   Rise  swaps with an Air cell directly above (y - 1)
\*   Bad   declares the cell above as its range and always fails
\*   Mark  stains the point above it and reports Stable
\*   Spin  changes nothing and reports Unstable
Kinds == {"Air", "Fall", "Rise", "Bad", "Mark", "Spin", "Melt"}

\* Cell::range
range(cell) ==
    CASE cell = "Fall" -> IRect(<<0, 0>>, <<0, 1>>)
      [] cell = "Rise" -> IRect(<<0, -1>>, <<0, 0>>)
      [] cell = "Bad"  -> IRect(<<0, -1>>, <<0, 0>>)
      [] cell = "Melt" -> IRect(<<0, -1>>, <<0, 0>>)
      [] OTHER         -> IRect(<<0, 0>>, <<0, 0>>)

(* ------------------------------------------------------------------ *)
(* PowderkegError and Result                                           *)
(* ------------------------------------------------------------------ *)

NoError == [kind |-> "None", first |-> <<0, 0>>, second |-> <<0, 0>>]

LocalOutOfBounds(p) == [kind |-> "LocalOutOfBounds", first |-> p, second |-> <<0, 0>>]

ChunkOutOfBounds(c) == [kind |-> "ChunkOutOfBounds", first |-> c, second |-> <<0, 0>>]

SwapOutOfBounds(a, b) == [kind |-> "SwapOutOfBounds", first |-> a, second |-> b]

CellError == [kind |-> "Cell", first |-> <<0, 0>>, second |-> <<0, 0>>]

\* Ok(value) together with the grid as the call leaves it
Ok(v, g) == [ok |-> TRUE, val |-> v, g |-> g, err |-> NoError]

\* Err(error); the grid is as the call leaves it
Err(e, g) == [ok |-> FALSE, val |-> "Air", g |-> g, err |-> e]

(* ------------------------------------------------------------------ *)
(* Chunk (src/src/chunk.rs)                                            *)
(* ------------------------------------------------------------------ *)

None == [some |-> FALSE, rect |-> IRect(<<0, 0>>, <<0, 0>>)]

Some(r) == [some |-> TRUE, rect |-> r]

\* Chunk::area
Chunk_area == IRect(<<0, 0>>, <<N - 1, N - 1>>)

\* Chunk::volume
Chunk_volume == N * N

\* an index that checks the row of the point only
Chunk_index_rows(point) ==
    IF ~ (Chunk_area.min[2] <= point[2] /\ point[2] <= Chunk_area.max[2])
    THEN 0
    ELSE (N * point[2] + point[1]) + 1

\* Chunk::index, 0 for None and 1 + (N * y + x) for Some
Chunk_index(point) ==
    IF ~ (/\ Chunk_area.min[1] <= point[1] /\ point[1] <= Chunk_area.max[1]
          /\ Chunk_area.min[2] <= point[2] /\ point[2] <= Chunk_area.max[2])
    THEN 0
    ELSE (N * point[2] + point[1]) + 1

\* Chunk::new; the auxiliary state is not modelled
Chunk_new(data) == [data |-> data, stain |-> Some(Chunk_area)]

\* Chunk::full_copied
Chunk_full_copied(value) == Chunk_new([i \in 1 .. Chunk_volume |-> value])

\* a dirty region that is always the whole chunk
Chunk_stained_whole(chunk) == AreaOf(Chunk_area)

\* Stainable::stained for Chunk
Chunk_stained(chunk) ==
    IF chunk.stain.some THEN AreaOf(rect_intersect(chunk.stain.rect, Chunk_area))
    ELSE AreaEmpty

\* a clear_stain that leaves the stain as it is
Chunk_clear_stain_keep(chunk) == chunk

\* Stainable::clear_stain for Chunk
Chunk_clear_stain(chunk) == [chunk EXCEPT !.stain = None]

\* Stainable::stain for Chunk
Chunk_stain(chunk, area) ==
    IF chunk.stain.some
    THEN [chunk EXCEPT !.stain = Some(rect_union(chunk.stain.rect, area))]
    ELSE [chunk EXCEPT !.stain = Some(area)]

\* Stainable::stain_point for Chunk
Chunk_stain_point(chunk, point) ==
    IF chunk.stain.some
    THEN [chunk EXCEPT !.stain = Some(rect_union_point(chunk.stain.rect, point))]
    ELSE [chunk EXCEPT !.stain = Some(from_corners(point, point))]

\* Grid::get for Chunk
Chunk_get(chunk, point) ==
    With(Chunk_index(point), LAMBDA index :
        IF index = 0 THEN Err(LocalOutOfBounds(point), chunk)
        ELSE Ok(chunk.data[index], chunk))

\* a get_mut that hands out the cell without staining the point
Chunk_get_mut_unstained(chunk, point) ==
    IF Chunk_index(point) = 0 THEN Err(LocalOutOfBounds(point), chunk)
    ELSE Ok(chunk.data[Chunk_index(point)], chunk)

\* a get_mut that stains the point before it has looked whether it exists
Chunk_get_mut_eager(chunk, point) ==
    IF Chunk_index(point) = 0
    THEN Err(LocalOutOfBounds(point), Chunk_stain_point(chunk, point))
    ELSE Ok(chunk.data[Chunk_index(point)], Chunk_stain_point(chunk, point))

\* Grid::get_mut for Chunk: the reference is modelled by the stained chunk,
\* the caller writes through Chunk_write
Chunk_get_mut(chunk, point) ==
    With(Chunk_index(point), LAMBDA index :
        IF index = 0 THEN Err(LocalOutOfBounds(point), chunk)
        ELSE Ok(chunk.data[index], Chunk_stain_point(chunk, point)))

\* assignment through the reference get_mut returned
Chunk_write(chunk, point, cell) == [chunk EXCEPT !.data[Chunk_index(point)] = cell]

\* Grid::replace for Chunk
Chunk_replace(chunk, point, cell) ==
    With(Chunk_get_mut(chunk, point), LAMBDA r :
        IF ~ r.ok THEN r ELSE Ok(r.val, Chunk_write(r.g, point, cell)))

\* a swap that stains the first point before it has looked at the second
Chunk_swap_eager(chunk, first, second) ==
    IF Chunk_index(first) = 0 THEN Err(LocalOutOfBounds(first), chunk)
    ELSE IF Chunk_index(second) = 0
    THEN Err(LocalOutOfBounds(second), Chunk_stain_point(chunk, first))
    ELSE Ok("Air", [Chunk_stain_point(Chunk_stain_point(chunk, first), second) EXCEPT
                       !.data[Chunk_index(first)] = chunk.data[Chunk_index(second)],
                       !.data[Chunk_index(second)] = chunk.data[Chunk_index(first)]])

\* a swap that exchanges the cells and stains nothing
Chunk_swap_unstained(chunk, first, second) ==
    IF Chunk_index(first) = 0 THEN Err(LocalOutOfBounds(first), chunk)
    ELSE IF Chunk_index(second) = 0 THEN Err(LocalOutOfBounds(second), chunk)
    ELSE Ok("Air", [chunk EXCEPT
                       !.data[Chunk_index(first)] = chunk.data[Chunk_index(second)],
                       !.data[Chunk_index(second)] = chunk.data[Chunk_index(first)]])

\* Grid::swap for Chunk
Chunk_swap(chunk, first, second) ==
    With(Chunk_index(first), LAMBDA first_index :
    With(Chunk_index(second), LAMBDA second_index :
        IF first_index = 0 THEN Err(LocalOutOfBounds(first), chunk)
        ELSE IF second_index = 0 THEN Err(LocalOutOfBounds(second), chunk)
        ELSE With(Chunk_stain_point(Chunk_stain_point(chunk, first), second), LAMBDA stained2 :
                 Ok("Air", [stained2 EXCEPT
                        !.data[first_index] = chunk.data[second_index],
                        !.data[second_index] = chunk.data[first_index]]))))

\* Grid::covers for Chunk
Chunk_covers(chunk) == AreaOf(Chunk_area)

(* ------------------------------------------------------------------ *)
(* ChunkCoords (src/src/chunk.rs)                                      *)
(* ------------------------------------------------------------------ *)

\* a division that rounds towards zero, as the operator / does
div_trunc(a, b) == IF a >= 0 THEN a \div b ELSE - ((- a) \div b)

\* i32::div_euclid / rem_euclid for the positive divisor N
div_euclid(a, b) == a \div b

rem_euclid(a, b) == a % b

\* ChunkCoords::offset
offset(coords) == VScale(N, coords)

\* a conversion that forgets the chunk's offset
local_to_world_no_offset(coords, local) == local

local_to_world(coords, local) == VAdd(offset(coords), local)

world_to_local(coords, world) == VSub(world, offset(coords))

\* ChunkCoords::world_to_chunk_and_local, as [chunk, local]
world_to_chunk_and_local(world) ==
    [chunk |-> <<div_euclid(world[1], N), div_euclid(world[2], N)>>,
     local |-> <<rem_euclid(world[1], N), rem_euclid(world[2], N)>>]

(* ------------------------------------------------------------------ *)
(* WorldGrid (src/src/simulation.rs): a function from the held chunk   *)
(* coordinates to chunks                                               *)
(* ------------------------------------------------------------------ *)

\* Grid::get for WorldGrid
WorldGrid_get(chunks, point) ==
    With(world_to_chunk_and_local(point), LAMBDA cl :
        IF cl.chunk \notin DOMAIN chunks THEN Err(ChunkOutOfBounds(cl.chunk), chunks)
        ELSE [Chunk_get(chunks[cl.chunk], cl.local) EXCEPT !.g = chunks])

\* a get_mut that hands the world point itself to the chunk
WorldGrid_get_mut_world(chunks, point) ==
    IF world_to_chunk_and_local(point).chunk \notin DOMAIN chunks
    THEN Err(ChunkOutOfBounds(world_to_chunk_and_local(point).chunk), chunks)
    ELSE [Chunk_get_mut(chunks[world_to_chunk_and_local(point).chunk], point) EXCEPT
             !.g = [chunks EXCEPT ![world_to_chunk_and_local(point).chunk] =
                       Chunk_get_mut(chunks[world_to_chunk_and_local(point).chunk], point).g]]

\* Grid::get_mut for WorldGrid
WorldGrid_get_mut(chunks, point) ==
    With(world_to_chunk_and_local(point), LAMBDA cl :
        IF cl.chunk \notin DOMAIN chunks THEN Err(ChunkOutOfBounds(cl.chunk), chunks)
        ELSE With(Chunk_get_mut(chunks[cl.chunk], cl.local), LAMBDA r :
                 [r EXCEPT !.g = [chunks EXCEPT ![cl.chunk] = r.g]]))

\* Grid::replace for WorldGrid
WorldGrid_replace(chunks, point, cell) ==
    With(WorldGrid_get_mut(chunks, point), LAMBDA r :
        IF ~ r.ok THEN r
        ELSE With(world_to_chunk_and_local(point), LAMBDA cl :
                 Ok(r.val, [r.g EXCEPT ![cl.chunk] = Chunk_write(@, cl.local, cell)])))

\* Grid::swap for WorldGrid
WorldGrid_swap(chunks, first, second) ==
    With(world_to_chunk_and_local(first), LAMBDA f :
    With(world_to_chunk_and_local(second), LAMBDA s :
        IF f.chunk = s.chunk
        THEN IF f.chunk \notin DOMAIN chunks
             THEN Err(ChunkOutOfBounds(f.chunk), chunks)
             ELSE With(Chunk_swap(chunks[f.chunk], f.local, s.local), LAMBDA r :
                      [r EXCEPT !.g = [chunks EXCEPT ![f.chunk] = r.g]])
        ELSE IF ~ (f.chunk \in DOMAIN chunks /\ s.chunk \in DOMAIN chunks)
             THEN Err(SwapOutOfBounds(f.chunk, s.chunk), chunks)
             ELSE With(Chunk_get_mut(Chunk_stain_point(chunks[f.chunk], f.local), f.local),
                       LAMBDA first_cell :
                  With(Chunk_get_mut(Chunk_stain_point(chunks[s.chunk], s.local), s.local),
                       LAMBDA second_cell :
                      IF ~ first_cell.ok THEN Err(first_cell.err, chunks)
                      ELSE IF ~ second_cell.ok THEN Err(second_cell.err, chunks)
                      ELSE Ok("Air", [chunks EXCEPT
                               ![f.chunk] = Chunk_write(first_cell.g, f.local, second_cell.val),
                               ![s.chunk] = Chunk_write(second_cell.g, s.local, first_cell.val)])))))

\* Grid::covers for WorldGrid: the held chunks' covered areas in world
\* coordinates; the iteration order of the hash map does not matter to
\* contains, the rectangles are listed in a fixed order of the coordinates
RECURSIVE SetToSeq(_)
SetToSeq(S) ==
    IF S = {} THEN <<>>
    ELSE LET x == CHOOSE x \in S : TRUE IN <<x>> \o SetToSeq(S \ {x})

\* a cover that forgets to move each chunk's area to the chunk's place
WorldGrid_covers_untranslated(chunks) ==
    Area_from_areas([i \in 1 .. Cardinality(DOMAIN chunks) |-> AreaOf(Chunk_area)])

WorldGrid_covers(chunks) ==
    With(SetToSeq(DOMAIN chunks), LAMBDA coords :
        Area_from_areas([i \in 1 .. Len(coords) |->
            Area_translate(Chunk_covers(chunks[coords[i]]), VScale(N, coords[i]))]))

\* Stainable::stained for WorldGrid
WorldGrid_stained(chunks) ==
    With(SetToSeq(DOMAIN chunks), LAMBDA coords :
        Area_from_areas([i \in 1 .. Len(coords) |-> Chunk_stained(chunks[coords[i]])]))

\* a WorldGrid that ignores the rectangles it is asked to stain
WorldGrid_stain_none(chunks, area) == chunks

\* Stainable::stain for WorldGrid
WorldGrid_stain(chunks, area) ==
    With(world_to_chunk_and_local(area.min).chunk, LAMBDA min_chunk :
    With(world_to_chunk_and_local(area.max).chunk, LAMBDA max_chunk :
        [chunk_coords \in DOMAIN chunks |->
            IF /\ chunk_coords[1] \in min_chunk[1] .. max_chunk[1]
               /\ chunk_coords[2] \in min_chunk[2] .. max_chunk[2]
            THEN Chunk_stain(chunks[chunk_coords],
                             translate_rect(area, VScale(-N, chunk_coords)))
            ELSE chunks[chunk_coords]]))

\* Stainable::stain_point for WorldGrid
WorldGrid_stain_point(chunks, point) ==
    With(world_to_chunk_and_local(point), LAMBDA cl :
        IF cl.chunk \in DOMAIN chunks
        THEN [chunks EXCEPT ![cl.chunk] = Chunk_stain_point(chunks[cl.chunk], cl.local)]
        ELSE chunks)

\* Stainable::clear_stain for WorldGrid
WorldGrid_clear_stain(chunks) ==
    [c \in DOMAIN chunks |-> Chunk_clear_stain(chunks[c])]

(* ------------------------------------------------------------------ *)
(* The grid view a tick is given: one chunk, or the WorldGrid          *)
(* ------------------------------------------------------------------ *)

LocalView(chunk) == [view |-> "Chunk", chunk |-> chunk]

WorldView(chunks) == [view |-> "WorldGrid", chunks |-> chunks]

Grid_get(g, point) ==
    IF g.view = "Chunk"
    THEN [Chunk_get(g.chunk, point) EXCEPT !.g = g]
    ELSE [WorldGrid_get(g.chunks, point) EXCEPT !.g = g]

Grid_get_mut(g, point) ==
    IF g.view = "Chunk"
    THEN With(Chunk_get_mut(g.chunk, point), LAMBDA r : [r EXCEPT !.g = LocalView(r.g)])
    ELSE With(WorldGrid_get_mut(g.chunks, point), LAMBDA r : [r EXCEPT !.g = WorldView(r.g)])

Grid_swap(g, first, second) ==
    IF g.view = "Chunk"
    THEN With(Chunk_swap(g.chunk, first, second), LAMBDA r : [r EXCEPT !.g = LocalView(r.g)])
    ELSE With(WorldGrid_swap(g.chunks, first, second), LAMBDA r : [r EXCEPT !.g = WorldView(r.g)])

Grid_replace(g, point, cell) ==
    IF g.view = "Chunk"
    THEN With(Chunk_replace(g.chunk, point, cell), LAMBDA r : [r EXCEPT !.g = LocalView(r.g)])
    ELSE With(WorldGrid_replace(g.chunks, point, cell), LAMBDA r : [r EXCEPT !.g = WorldView(r.g)])

Grid_clear_stain(g) ==
    IF g.view = "Chunk"
    THEN LocalView(Chunk_clear_stain(g.chunk))
    ELSE WorldView(WorldGrid_clear_stain(g.chunks))

Grid_stain_point(g, point) ==
    IF g.view = "Chunk"
    THEN LocalView(Chunk_stain_point(g.chunk, point))
    ELSE WorldView(WorldGrid_stain_point(g.chunks, point))

Grid_stain(g, area) ==
    IF g.view = "Chunk"
    THEN LocalView(Chunk_stain(g.chunk, area))
    ELSE WorldView(WorldGrid_stain(g.chunks, area))

\* Stainable::is_stained
is_stained(g, point) ==
    IF g.view = "Chunk"
    THEN Area_contains(Chunk_stained(g.chunk), point)
    ELSE Area_contains(WorldGrid_stained(g.chunks), point)

\* Stainable::stain_around
Grid_stain_around(g, point, radius) ==
    Grid_stain(g, from_center_half_size(point, <<radius, radius>>))

(* ------------------------------------------------------------------ *)
(* Cell::tick of the reference cell types                              *)
(* ------------------------------------------------------------------ *)

TickOk(success, g) == [ok |-> TRUE, val |-> success, g |-> g, err |-> NoError]

\* a cell that swaps with the Air cell at origin + dir, if there is one
tick_move(origin, g, dir) ==
    With(Grid_get(g, VAdd(origin, dir)), LAMBDA seen :
        IF ~ seen.ok THEN Err(seen.err, g)
        ELSE IF seen.val = "Air"
             THEN With(Grid_swap(g, origin, VAdd(origin, dir)), LAMBDA swapped :
                      IF ~ swapped.ok THEN Err(swapped.err, swapped.g)
                      ELSE TickOk("Unstable", swapped.g))
             ELSE TickOk("Stable", g))

\* a cell that replaces itself (Grid::replace) and reports Stable
tick_replace(origin, g, cell) ==
    With(Grid_replace(g, origin, cell), LAMBDA replaced :
        IF ~ replaced.ok THEN Err(replaced.err, replaced.g)
        ELSE TickOk("Stable", replaced.g))

\* Cell::tick(TickInput { origin, grid })
tick(origin, g) ==
    With(Grid_get(g, origin).val, LAMBDA this :
        CASE this = "Fall" -> tick_move(origin, g, <<0, 1>>)
          [] this = "Rise" -> tick_move(origin, g, <<0, -1>>)
          [] this = "Bad"  -> Err(CellError, g)
          [] this = "Mark" -> TickOk("Stable", Grid_stain_point(g, VAdd(origin, <<0, -1>>)))
          [] this = "Spin" -> TickOk("Unstable", g)
          [] this = "Melt" -> tick_replace(origin, g, "Air")
          [] OTHER         -> TickOk("Stable", g))

(* ------------------------------------------------------------------ *)
(* The scheduler: simulate_powderkeg (src/src/simulation.rs)           *)
(* ------------------------------------------------------------------ *)

\* chunk coordinates the host may have loaded: A and the chunk above it
A == <<0, 0>>

B == <<0, -1>>

ChunkIds == {A, B}

\* PowderkegTickRate values (ticks per second) and Time::delta_seconds
\* values (in 1/Scale seconds) of the frames of the grid scenarios
TickRates == {0, 2}

Elapsed == {0, Scale \div 2}

\* the same for the accumulator scenarios: up to 6 ticks per second and
\* frames of 0, 3/10 and 1/2 second (for Scale = 10)
FrameRates == {0, 2, 6}

FrameElapsed == {0, (3 * Scale) \div 10, Scale \div 2}

\* local points the host paints, and local rectangles it stains
HostPoints == {<<0, 0>>, <<0, 1>>, <<0, 3>>}

HostRects == {IRect(<<-2, 0>>, <<-1, 0>>), IRect(<<-1, 0>>, <<0, 0>>), IRect(<<0, 3>>, <<0, 4>>)}

\* what the host did to a settled chunk before the run: at most one cell
\* painted, at most one rectangle stained
Paints(points, kinds) == {<<>>} \cup {<<[point |-> p, cell |-> k]>> : p \in points, k \in kinds}

Rects(rects) == {<<>>} \cup {<<r>> : r \in rects}

VARIABLES
    ticks,      \* Local<f32> accumulator, in 1/Scale
    chunks,     \* the loaded chunks: coordinate -> Chunk
    phase,      \* position of the control thread in simulate_powderkeg
    task,       \* position of each chunk's parallel task
    pending,    \* per task: the shuffled points not yet visited
    senders,    \* the channel senders not yet dropped
    to_tick,    \* deferred-point channel
    errors,     \* error channel
    stains,     \* boundary-stain channel
    log,        \* what error! has printed in this step: [point, error]
    world_covers, \* the Area computed at line 241
    steps,      \* number of discrete steps begun
    frame,      \* history of the current frame
    stain0,     \* history: per chunk, the points of the cleared stain
    sent,       \* history: everything sent on each channel in this step
    taken,      \* history: everything received from each channel in this step
    dispatch,   \* history: what was done with each point visited in this step
    ev,         \* history: what the last action did
    frames,     \* history: the first frames of the run, as many as asked for
    call        \* history: the last call made on the grid interface

vars == <<ticks, chunks, phase, task, pending, senders, to_tick, errors, stains,
          log, world_covers, steps, frame, stain0, sent, taken, dispatch, ev,
          frames, call>>

Loaded == DOMAIN chunks

\* the actor of what the control thread does itself (no chunk task)
Control == <<>>

NoEv == [op |-> "none", actor |-> Control, point |-> <<0, 0>>, cell |-> "Air",
         ticked |-> FALSE, res |-> "none", wrote |-> {}, logged |-> 0]

\* the history of a frame: the accumulator before it and what it added, the
\* steps begun before it, whether it has ended, the points left Unstable by
\* the step before, the chunks at the start of its step and, for the chunks
\* whose visits are recorded, the points visited so far in the parallel
\* phase, in the order of the visits
NoFrame == [before |-> 0, added |-> 0, steps0 |-> 0, done |-> FALSE, retry |-> {},
            start |-> <<>>, order |-> <<>>]

NoSent == [to_tick |-> <<>>, errors |-> <<>>, stains |-> <<>>]

\* the frame history: keep is the number of frames to record, log the
\* frames recorded, tick_rate and delta_seconds the inputs of a frame whose
\* step is still running
NoFrames(keep) == [keep |-> keep, log |-> <<>>, tick_rate |-> 0, delta_seconds |-> 0]

Recording(f) == Len(f.log) < f.keep

Pending(f, tick_rate, delta_seconds) ==
    IF Recording(f)
    THEN [f EXCEPT !.tick_rate = tick_rate, !.delta_seconds = delta_seconds]
    ELSE f

\* a frame has ended: its inputs, whether a step ran in it, the accumulator
\* it left and the number of steps begun so far
Record(f, tick_rate, delta_seconds, stepped, after, n) ==
    IF Recording(f)
    THEN [f EXCEPT !.log = Append(@, [tick_rate |-> tick_rate,
                                      delta_seconds |-> delta_seconds,
                                      stepped |-> stepped, after |-> after, steps |-> n]),
                   !.tick_rate = 0, !.delta_seconds = 0]
    ELSE f

\* no call made yet
NoCall == [op |-> "none", n |-> 0]

Wrote(old, new) == {c \in DOMAIN old : new[c] # old[c]}

\* a settled chunk: all Air with no stain, as a step leaves an all-Air chunk
QuietChunk == Chunk_clear_stain(Chunk_full_copied("Air"))

\* the host paints cells (Grid::replace, as paint_sand does) and stains
\* rectangles (Stainable::stain)
HostEdit(chunk, paints, rects) ==
    With(IF paints = <<>> THEN chunk
         ELSE Chunk_replace(chunk, paints[1].point, paints[1].cell).g, LAMBDA painted :
        IF rects = <<>> THEN painted ELSE Chunk_stain(painted, rects[1]))

InitRest ==
    /\ ticks = 0
    /\ phase = "idle"
    /\ task = [c \in Loaded |-> "done"]
    /\ pending = [c \in Loaded |-> {}]
    /\ senders = {}
    /\ to_tick = <<>>
    /\ errors = <<>>
    /\ stains = <<>>
    /\ log = <<>>
    /\ world_covers = AreaEmpty
    /\ steps = 0
    /\ frame = NoFrame
    /\ stain0 = [c \in Loaded |-> {}]
    /\ sent = NoSent
    /\ taken = NoSent
    /\ dispatch = {}
    /\ ev = NoEv
    /\ call = NoCall

\* grid scenarios: chunk A alone or with the chunk B above it, each settled
\* and then edited by the host; the accumulator at its initial 0
Init ==
    /\ \E paintA \in Paints(HostPoints, Kinds \ {"Air"}), rectA \in Rects(HostRects),
          paintB \in Paints({<<0, 0>>, <<0, 3>>}, {"Fall", "Rise", "Bad"}),
          withB \in BOOLEAN :
          chunks = IF withB
                   THEN (A :> HostEdit(QuietChunk, paintA, rectA))
                        @@ (B :> HostEdit(QuietChunk, paintB, <<>>))
                   ELSE (A :> HostEdit(QuietChunk, paintA, rectA))
    /\ frames = NoFrames(0)
    /\ InitRest

\* accumulator scenarios: one settled chunk
InitFrames ==
    /\ chunks = (A :> QuietChunk)
    /\ frames = NoFrames(0)
    /\ InitRest

(* ---- one frame: lines 167-172 ---- *)

\* a clamp that forgets the upper limit
clamp_no_upper(value, lo, hi) == IF value < lo THEN lo ELSE value

\* f32::clamp(value, lo, hi)
clamp(value, lo, hi) == IF value < lo THEN lo ELSE IF value > hi THEN hi ELSE value

\* an accumulator that adds a whole second's worth of ticks in every frame
accumulate_per_frame(t, tick_rate, delta_seconds) == t + tick_rate * Scale

\* line 167
accumulate(t, tick_rate, delta_seconds) == t + tick_rate * delta_seconds

\* a step only when more than one tick is owed
step_due_strict(t) == t > Scale

\* line 169
step_due(t) == t >= Scale

Frame(tick_rate, delta_seconds) ==
    /\ phase = "idle"
    /\ ticks' = accumulate(ticks, tick_rate, delta_seconds)
    /\ IF step_due(ticks')
       THEN /\ phase' = "parallel"
            /\ task' = [c \in Loaded |-> "waiting"]
            /\ senders' = {"to_tick", "errors", "stains"}
            /\ steps' = steps + 1
            /\ frame' = [before |-> ticks, added |-> tick_rate * delta_seconds,
                         steps0 |-> steps, done |-> FALSE,
                         retry |-> {[chunk |-> d.chunk, point |-> d.point] :
                                       d \in {e \in dispatch : e.res = "Unstable"}},
                         start |-> chunks, order |-> [c \in DOMAIN frame.order |-> <<>>]]
            /\ stain0' = [c \in Loaded |-> {}]
            /\ sent' = NoSent
            /\ taken' = NoSent
            /\ dispatch' = {}
            /\ log' = <<>>
       ELSE /\ frame' = [before |-> ticks, added |-> tick_rate * delta_seconds,
                         steps0 |-> steps, done |-> TRUE, retry |-> frame.retry,
                         start |-> frame.start, order |-> frame.order]
            /\ UNCHANGED <<phase, task, senders, steps, stain0, sent, taken, dispatch, log>>
    /\ ev' = [NoEv EXCEPT !.op = "frame"]
    /\ UNCHANGED <<chunks, pending, to_tick, errors, stains, world_covers>>
    /\ frames' = IF step_due(ticks')
                 THEN Pending(frames, tick_rate, delta_seconds)
                 ELSE Record(frames, tick_rate, delta_seconds, FALSE, ticks', steps')
    /\ UNCHANGED call

(* ---- parallel phase: lines 174-218 ---- *)

\* lines 175-179: the task takes stained() and clears the stain
TaskStart(c) ==
    /\ phase = "parallel"
    /\ c \in Loaded
    /\ task[c] = "waiting"
    /\ \E stain \in {Chunk_stained(chunks[c])} :
           /\ pending' = [pending EXCEPT ![c] = Area_points(stain)]
           /\ stain0' = [stain0 EXCEPT ![c] = Area_points(stain)]
    /\ chunks' = [chunks EXCEPT ![c] = Chunk_clear_stain(chunks[c])]
    /\ task' = [task EXCEPT ![c] = "running"]
    /\ ev' = [NoEv EXCEPT !.op = "start", !.actor = c, !.wrote = Wrote(chunks, chunks')]
    /\ UNCHANGED <<ticks, phase, senders, to_tick, errors, stains, log, world_covers,
                   steps, frame, sent, taken, dispatch>>
    /\ UNCHANGED <<frames, call>>

\* a parallel tick handed the whole world instead of its own chunk
input_grid_world(all, coords) == WorldView(all)

\* lines 191-194: the grid a parallel tick is given, chunk.as_mut()
input_grid(all, coords) == LocalView(all[coords])

\* the chunks after a tick has run against the view g
ApplyView(all, coords, g) ==
    IF g.view = "Chunk" THEN [all EXCEPT ![coords] = g.chunk] ELSE g.chunks

\* a range test that looks at the near corner only
range_inside_min(r) == rect_contains_inclusive(Chunk_area, r.min)

\* line 190: does the translated range lie inside the chunk
range_inside(r) ==
    /\ rect_contains_inclusive(Chunk_area, r.min)
    /\ rect_contains_inclusive(Chunk_area, r.max)

\* a scheduler that leaves the origin of an Unstable tick as the tick left it
restain_none(chunk, point) == chunk

\* line 198: the origin of an Unstable tick is stained again
restain(chunk, point) == Chunk_stain_point(chunk, point)

\* lines 184-208: the closure apply_randomly calls on one point.
\* Result: panic (at() failed), the chunks afterwards, what was sent on the
\* deferred and error channels, and the tick call made (if any).
visit_local(all, coords, point) ==
    With(Chunk_get(all[coords], point), LAMBDA cell :
    With([panic |-> FALSE, chunks |-> all, defer |-> <<>>, errs |-> <<>>,
          cell |-> cell.val, ticked |-> FALSE, res |-> "none"], LAMBDA nothing :
        IF ~ cell.ok THEN [nothing EXCEPT !.panic = TRUE]
        ELSE IF range_inside(translate_rect(range(cell.val), point))
        THEN With(tick(point, input_grid(all, coords)), LAMBDA r :
             With(ApplyView(all, coords, r.g), LAMBDA after :
                 IF r.ok /\ r.val = "Unstable"
                 THEN [nothing EXCEPT
                          !.chunks = [after EXCEPT ![coords] = restain(@, point)],
                          !.ticked = TRUE, !.res = "Unstable"]
                 ELSE IF ~ r.ok
                 THEN [nothing EXCEPT !.chunks = after, !.ticked = TRUE, !.res = "Err",
                          !.errs = <<[point |-> local_to_world(coords, point),
                                      error |-> r.err]>>]
                 ELSE [nothing EXCEPT !.chunks = after, !.ticked = TRUE, !.res = "Stable"]))
        ELSE [nothing EXCEPT !.defer = <<local_to_world(coords, point)>>]))

\* a loop that keeps handing out a point it has already visited
choices_left_all(choices, point) == choices

\* area.rs 58-60: the points still to visit once `point` has been handed to
\* the closure; each collected choice is handed out once
choices_left(choices, point) == choices \ {point}

\* one call of the closure, on any of the points left (the shuffle)
TaskVisit(c, point) ==
    /\ phase = "parallel"
    /\ c \in Loaded
    /\ task[c] = "running"
    /\ point \in pending[c]
    /\ \E v \in {visit_local(chunks, c, point)} :
           /\ chunks' = v.chunks
           /\ task' = [task EXCEPT ![c] = IF v.panic THEN "panicked" ELSE "running"]
           /\ pending' = [pending EXCEPT ![c] = choices_left(@, point)]
           /\ to_tick' = to_tick \o v.defer
           /\ errors' = errors \o v.errs
           /\ sent' = [sent EXCEPT !.to_tick = @ \o v.defer, !.errors = @ \o v.errs]
           /\ dispatch' = IF v.panic THEN dispatch
                          ELSE dispatch \cup {[chunk |-> c, point |-> point, cell |-> v.cell,
                                               how |-> IF v.ticked THEN "tick" ELSE "defer",
                                               res |-> v.res]}
           /\ ev' = [op |-> IF v.panic THEN "panic" ELSE "visit", actor |-> c,
                     point |-> local_to_world(c, point), cell |-> v.cell,
                     ticked |-> v.ticked, res |-> v.res,
                     wrote |-> Wrote(chunks, v.chunks), logged |-> 0]
    /\ frame' = IF c \in DOMAIN frame.order
                 THEN [frame EXCEPT !.order[c] = Append(@, point)]
                 ELSE frame
    /\ UNCHANGED <<ticks, phase, senders, stains, log, world_covers, steps,
                   stain0, taken>>
    /\ UNCHANGED <<frames, call>>

\* lines 211-217: the stain rectangle to forward, if the recorded stain
\* leaves the chunk
overflow(chunk, coords) ==
    IF chunk.stain.some
       /\ ~ (/\ rect_contains_inclusive(Chunk_area, chunk.stain.rect.min)
             /\ rect_contains_inclusive(Chunk_area, chunk.stain.rect.max))
    THEN <<translate_rect(chunk.stain.rect, VScale(N, coords))>>
    ELSE <<>>

TaskFinish(c) ==
    /\ phase = "parallel"
    /\ c \in Loaded
    /\ task[c] = "running"
    /\ pending[c] = {}
    /\ stains' = stains \o overflow(chunks[c], c)
    /\ sent' = [sent EXCEPT !.stains = @ \o overflow(chunks[c], c)]
    /\ task' = [task EXCEPT ![c] = "done"]
    /\ ev' = [NoEv EXCEPT !.op = "finish", !.actor = c]
    /\ UNCHANGED <<ticks, chunks, phase, pending, senders, to_tick, errors, log,
                   world_covers, steps, frame, stain0, taken, dispatch>>
    /\ UNCHANGED <<frames, call>>

(* ---- merge barrier: par_iter_mut().for_each returns, lines 218-222 ---- *)

\* a barrier that opens as soon as one task has ended
joined_any(t) == \E c \in DOMAIN t : t[c] \in {"done", "panicked"}

\* for_each returns once every task has ended
joined(t) == \A c \in DOMAIN t : t[c] \in {"done", "panicked"}

Join ==
    /\ phase = "parallel"
    /\ joined(task)
    /\ IF \E c \in Loaded : task[c] = "panicked"
       THEN /\ phase' = "panicked"
            /\ UNCHANGED senders
       ELSE /\ phase' = "errors"
            /\ senders' = {}
    /\ ev' = [NoEv EXCEPT !.op = "join"]
    /\ UNCHANGED <<ticks, chunks, task, pending, to_tick, errors, stains, log,
                   world_covers, steps, frame, stain0, sent, taken, dispatch>>
    /\ UNCHANGED <<frames, call>>

(* ---- serial phase: lines 224-268 ---- *)

\* lines 224-226: every error received is logged
DrainErrors ==
    /\ phase = "errors"
    /\ log' = log \o errors
    /\ errors' = <<>>
    /\ taken' = [taken EXCEPT !.errors = @ \o errors]
    /\ phase' = "stains"
    /\ ev' = [NoEv EXCEPT !.op = "errors", !.logged = Len(errors)]
    /\ frame' = [frame EXCEPT !.order = [c \in DOMAIN frame.order |-> <<>>]]
    /\ UNCHANGED <<ticks, chunks, task, pending, senders, to_tick, stains,
                   world_covers, steps, stain0, sent, dispatch>>
    /\ UNCHANGED <<frames, call>>

RECURSIVE stain_all(_, _)
stain_all(all, rects) ==
    IF rects = <<>> THEN all
    ELSE stain_all(WorldGrid_stain(all, Head(rects)), Tail(rects))

\* lines 228-241: the WorldGrid takes every chunk, the boundary stains are
\* applied in the order received, covers() is computed
ApplyStains ==
    /\ phase = "stains"
    /\ chunks' = stain_all(chunks, stains)
    /\ stains' = <<>>
    /\ taken' = [taken EXCEPT !.stains = @ \o stains]
    /\ world_covers' = WorldGrid_covers(chunks)
    /\ phase' = "deferred"
    /\ ev' = [NoEv EXCEPT !.op = "stains", !.wrote = Wrote(chunks, chunks')]
    /\ UNCHANGED <<ticks, task, pending, senders, to_tick, errors, log, steps,
                   frame, stain0, sent, dispatch>>
    /\ UNCHANGED <<frames, call>>

\* lines 244-265: the body of the loop over the deferred points
visit_world(all, covers, point) ==
    With(WorldGrid_get(all, point), LAMBDA cell :
    With([panic |-> FALSE, chunks |-> all, errs |-> <<>>,
          cell |-> cell.val, ticked |-> FALSE, res |-> "none"], LAMBDA nothing :
        IF ~ cell.ok THEN [nothing EXCEPT !.panic = TRUE]
        ELSE IF area_contains(translate_rect(range(cell.val), point), covers)
        THEN With(tick(point, WorldView(all)), LAMBDA r :
                 IF r.ok /\ r.val = "Unstable"
                 THEN [nothing EXCEPT
                          !.chunks = WorldGrid_stain_point(r.g.chunks, point),
                          !.ticked = TRUE, !.res = "Unstable"]
                 ELSE IF ~ r.ok
                 THEN [nothing EXCEPT !.chunks = r.g.chunks, !.ticked = TRUE,
                          !.res = "Err",
                          !.errs = <<[point |-> point, error |-> r.err]>>]
                 ELSE [nothing EXCEPT !.chunks = r.g.chunks, !.ticked = TRUE,
                          !.res = "Stable"])
        ELSE nothing))

SerialVisit ==
    /\ phase = "deferred"
    /\ to_tick # <<>>
    /\ \E v \in {visit_world(chunks, world_covers, Head(to_tick))} :
           /\ chunks' = v.chunks
           /\ phase' = IF v.panic THEN "panicked" ELSE "deferred"
           /\ to_tick' = Tail(to_tick)
           /\ log' = log \o v.errs
           /\ taken' = [taken EXCEPT !.to_tick = Append(@, Head(to_tick))]
           /\ dispatch' = IF v.panic THEN dispatch
                          ELSE dispatch \cup {[chunk |-> world_to_chunk_and_local(Head(to_tick)).chunk,
                                               point |-> world_to_chunk_and_local(Head(to_tick)).local,
                                               cell |-> v.cell,
                                               how |-> IF v.ticked THEN "serial" ELSE "skip",
                                               res |-> v.res]}
           /\ ev' = [op |-> IF v.panic THEN "panic" ELSE "serial", actor |-> Control,
                     point |-> Head(to_tick), cell |-> v.cell, ticked |-> v.ticked,
                     res |-> v.res, wrote |-> Wrote(chunks, v.chunks),
                     logged |-> Len(v.errs)]
    /\ UNCHANGED <<ticks, task, pending, senders, errors, stains, world_covers,
                   steps, frame, stain0, sent>>
    /\ UNCHANGED <<frames, call>>

\* line 268
Clamp ==
    /\ phase = "deferred"
    /\ to_tick = <<>>
    /\ ticks' = clamp(ticks - Scale, 0, Scale)
    /\ phase' = "idle"
    /\ frame' = [frame EXCEPT !.done = TRUE]
    /\ ev' = [NoEv EXCEPT !.op = "clamp"]
    /\ UNCHANGED <<chunks, task, pending, senders, to_tick, errors, stains, log,
                   world_covers, steps, stain0, sent, taken, dispatch>>
    /\ frames' = Record(frames, frames.tick_rate, frames.delta_seconds, TRUE, ticks', steps)
    /\ UNCHANGED call

Next ==
    \/ /\ \E tick_rate \in TickRates, delta_seconds \in Elapsed :
              Frame(tick_rate, delta_seconds)
       /\ steps' <= MaxSteps
    \/ \E c \in ChunkIds : TaskStart(c)
    \/ \E c \in ChunkIds, point \in RectPoints(IRect(<<-2, -2>>, <<N + 1, N + 1>>)) :
           TaskVisit(c, point)
    \/ \E c \in ChunkIds : TaskFinish(c)
    \/ Join
    \/ DrainErrors
    \/ ApplyStains
    \/ SerialVisit
    \/ Clamp

Spec == Init /\ [][Next]_vars

\* the steps of simulate_powderkeg once a discrete step has begun: the tasks
\* of par_iter_mut and the control thread's serial phase
StepNext ==
    \/ \E c \in ChunkIds : TaskStart(c)
    \/ \E c \in ChunkIds, point \in RectPoints(IRect(<<-2, -2>>, <<N + 1, N + 1>>)) :
           TaskVisit(c, point)
    \/ \E c \in ChunkIds : TaskFinish(c)
    \/ Join
    \/ DrainErrors
    \/ ApplyStains
    \/ SerialVisit
    \/ Clamp

\* the same program under the scheduling the code relies on: the thread pool
\* runs every chunk task it was given and the control thread keeps running
\* the system, so a step that can take a step does; the host is free to stop
\* calling the system between steps
SpecLive == Init /\ [][Next]_vars /\ WF_vars(StepNext)

\* the frames of a settled world: no point is ever dispatched
NextFrames ==
    \/ /\ \E tick_rate \in FrameRates, delta_seconds \in FrameElapsed :
              Frame(tick_rate, delta_seconds)
       /\ steps' <= MaxFrameSteps
    \/ \E c \in ChunkIds : TaskStart(c)
    \/ \E c \in ChunkIds : TaskFinish(c)
    \/ Join
    \/ DrainErrors
    \/ ApplyStains
    \/ Clamp

SpecFrames == InitFrames /\ [][NextFrames]_vars

\* tick-rate scenarios: the first MaxFrames frames are recorded
MaxFrames == 4

RateRates == {2}

InitRate ==
    /\ chunks = (A :> QuietChunk)
    /\ frames = NoFrames(MaxFrames)
    /\ InitRest

NextRate ==
    \/ /\ \E tick_rate \in RateRates, delta_seconds \in FrameElapsed :
              Frame(tick_rate, delta_seconds)
       /\ steps' <= MaxFrameSteps
    \/ \E c \in ChunkIds : TaskStart(c)
    \/ \E c \in ChunkIds : TaskFinish(c)
    \/ Join
    \/ DrainErrors
    \/ ApplyStains
    \/ Clamp

SpecRate == InitRate /\ [][NextRate]_vars

MaxOwedFrames == 3

\* a settled world whose first frames are recorded, at any of the tick rates
\* and frame times
InitOwed ==
    /\ chunks = (A :> QuietChunk)
    /\ frames = NoFrames(MaxOwedFrames)
    /\ InitRest

\* frames are run while they are recorded
NextOwed ==
    \/ /\ \E tick_rate \in FrameRates, delta_seconds \in FrameElapsed :
              Frame(tick_rate, delta_seconds)
       /\ Recording(frames)
    \/ \E c \in ChunkIds : TaskStart(c)
    \/ \E c \in ChunkIds : TaskFinish(c)
    \/ Join
    \/ DrainErrors
    \/ ApplyStains
    \/ Clamp

SpecOwed == InitOwed /\ [][NextOwed]_vars

\* number of discrete steps in one run of the scenarios that record visits
MaxOrderSteps == 1

\* the grid scenarios with both chunks loaded, the order of each task's
\* visits recorded
InitOrder ==
    /\ \E paintA \in Paints(HostPoints, Kinds \ {"Air"}),
          rectA \in Rects({IRect(<<0, 3>>, <<0, 4>>)}),
          paintB \in Paints({<<0, 0>>, <<0, 3>>}, {"Fall", "Rise", "Bad"}) :
          chunks = (A :> HostEdit(QuietChunk, paintA, rectA))
                   @@ (B :> HostEdit(QuietChunk, paintB, <<>>))
    /\ frames = NoFrames(0)
    /\ ticks = 0
    /\ phase = "idle"
    /\ task = [c \in Loaded |-> "done"]
    /\ pending = [c \in Loaded |-> {}]
    /\ senders = {}
    /\ to_tick = <<>>
    /\ errors = <<>>
    /\ stains = <<>>
    /\ log = <<>>
    /\ world_covers = AreaEmpty
    /\ steps = 0
    /\ frame = [NoFrame EXCEPT !.order = [c \in Loaded |-> <<>>]]
    /\ stain0 = [c \in Loaded |-> {}]
    /\ sent = NoSent
    /\ taken = NoSent
    /\ dispatch = {}
    /\ ev = NoEv
    /\ call = NoCall

NextOrder ==
    \/ /\ \E tick_rate \in TickRates, delta_seconds \in Elapsed :
              Frame(tick_rate, delta_seconds)
       /\ steps' <= MaxOrderSteps
    \/ \E c \in ChunkIds : TaskStart(c)
    \/ \E c \in ChunkIds, point \in RectPoints(IRect(<<-2, -2>>, <<N + 1, N + 1>>)) :
           TaskVisit(c, point)
    \/ \E c \in ChunkIds : TaskFinish(c)
    \/ Join
    \/ DrainErrors
    \/ ApplyStains
    \/ SerialVisit
    \/ Clamp

SpecOrder == InitOrder /\ [][NextOrder]_vars

\* number of discrete steps in one run of the fresh-chunk scenario
MaxFreshSteps == 1

\* the cells of a chunk that is empty but for one cell at a local point
OneCell(point, cell) ==
    [i \in 1 .. Chunk_volume |-> IF i = Chunk_index(point) THEN cell ELSE "Air"]

\* fresh-chunk scenario: one chunk just built by Chunk::new (the whole chunk
\* is stained) holding a falling cell at local (0,0)
InitFresh ==
    /\ chunks = (A :> Chunk_new(OneCell(<<0, 0>>, "Fall")))
    /\ frames = NoFrames(0)
    /\ InitRest

\* the shuffles explored in the fresh-chunk scenario: the points of column 0
\* come first, in any order, then the other points in row-major order
ColumnFirst(points) ==
    IF \E p \in points : p[1] = 0
    THEN {p \in points : p[1] = 0}
    ELSE {p \in points : \A q \in points : N * p[2] + p[1] <= N * q[2] + q[1]}

NextFresh ==
    \/ /\ \E tick_rate \in TickRates, delta_seconds \in Elapsed :
              Frame(tick_rate, delta_seconds)
       /\ steps' <= MaxFreshSteps
    \/ \E c \in ChunkIds : TaskStart(c)
    \/ \E c \in Loaded : \E point \in ColumnFirst(pending[c]) : TaskVisit(c, point)
    \/ \E c \in ChunkIds : TaskFinish(c)
    \/ Join
    \/ DrainErrors
    \/ ApplyStains
    \/ SerialVisit
    \/ Clamp

SpecFresh == InitFresh /\ [][NextFresh]_vars

MaxQuietSteps == 2

\* the cells a fresh chunk is built from in the settling scenario: nothing
\* but Air, a Rise cell in the top row (its range leaves the chunk and no
\* chunk is loaded above it), or a Spin cell (Unstable on every tick)
QuietData ==
    {[i \in 1 .. Chunk_volume |-> "Air"], OneCell(<<1, 0>>, "Rise"), OneCell(<<1, 1>>, "Spin")}

\* settling scenario: chunk A just built by Chunk::new, so the whole chunk
\* is stained, alone or below a settled chunk B
InitQuiet ==
    /\ \E data \in QuietData, withB \in BOOLEAN :
          chunks = IF withB THEN (A :> Chunk_new(data)) @@ (B :> QuietChunk)
                   ELSE (A :> Chunk_new(data))
    /\ frames = NoFrames(0)
    /\ InitRest

\* the shuffles explored in the settling scenario: each next point is the
\* first or the last of the points left, in row-major order
EitherEnd(points) ==
    {p \in points : (\A q \in points : N * p[2] + p[1] <= N * q[2] + q[1])
                         \/ (\A r \in points : N * p[2] + p[1] >= N * r[2] + r[1])}

NextQuiet ==
    \/ /\ \E tick_rate \in TickRates, delta_seconds \in Elapsed :
              Frame(tick_rate, delta_seconds)
       /\ steps' <= MaxQuietSteps
    \/ \E c \in ChunkIds : TaskStart(c)
    \/ \E c \in Loaded : \E point \in EitherEnd(pending[c]) : TaskVisit(c, point)
    \/ \E c \in ChunkIds : TaskFinish(c)
    \/ Join
    \/ DrainErrors
    \/ ApplyStains
    \/ SerialVisit
    \/ Clamp

SpecQuiet == InitQuiet /\ [][NextQuiet]_vars

(* ---- the grid interface, called by the host or by a tick ---- *)

\* number of calls in one run of the grid-interface scenarios
MaxCalls == 1

\* T::default()
DefaultCell == "Air"

\* Default for Chunk
Chunk_default == Chunk_new([i \in 1 .. Chunk_volume |-> DefaultCell])

\* the points the calls are made on: as chunk-local points three lie inside
\* the chunk and four outside; as world points three lie in chunk A, two in
\* chunk B and two in chunks that are never loaded
GridPoints == {<<0, 0>>, <<1, 0>>, <<0, 3>>, <<0, -1>>, <<1, -1>>, <<N, 0>>, <<-1, 0>>}

GridCells == {"Fall", "Spin"}

\* the rectangles stained: as world rectangles the first lies in chunk A, the
\* second spans chunks B and A, the third spans a chunk never loaded and A
GridRects == {IRect(<<1, 0>>, <<1, 1>>), IRect(<<0, -1>>, <<0, 0>>), IRect(<<-1, 0>>, <<0, 0>>)}

\* the worlds the calls are made on: chunk A fresh, or settled and painted,
\* or settled and stained outside its bounds; alone or with chunk B
GridWorlds ==
    {IF withB THEN (A :> a) @@ (B :> HostEdit(QuietChunk, <<[point |-> <<0, 3>>, cell |-> "Rise"]>>, <<>>))
              ELSE (A :> a) :
        a \in {Chunk_default,
               HostEdit(QuietChunk, <<[point |-> <<0, 0>>, cell |-> "Fall"]>>, <<>>),
               HostEdit(QuietChunk, <<>>, <<IRect(<<-2, 0>>, <<-1, 0>>)>>)},
        withB \in BOOLEAN}

InitGrid ==
    /\ chunks \in GridWorlds
    /\ frames = NoFrames(0)
    /\ InitRest

\* the grid a call is made on: the chunk at coords alone, or the WorldGrid
\* over every loaded chunk
TargetView(all, coords, world) == IF world THEN WorldView(all) ELSE LocalView(all[coords])

\* the record of a call: what was called on which grid with which arguments,
\* the chunks before it and its result
Called(op, g, coords, first, second, cell, r) ==
    [op |-> op, view |-> g.view, on |-> coords, first |-> first, second |-> second,
     cell |-> cell, before |-> chunks, ok |-> r.ok, val |-> r.val, err |-> r.err,
     n |-> call.n + 1]

GridRest ==
    UNCHANGED <<ticks, phase, task, pending, senders, to_tick, errors, stains, log,
                world_covers, steps, frame, stain0, sent, taken, dispatch, ev, frames>>

\* grid.get(point)
CallGet(coords, world, point) ==
    /\ phase = "idle"
    /\ call.n < MaxCalls
    /\ coords \in Loaded
    /\ \E g \in {TargetView(chunks, coords, world)} :
       \E r \in {Grid_get(g, point)} :
           /\ chunks' = ApplyView(chunks, coords, r.g)
           /\ call' = Called("get", g, coords, point, point, "Air", r)
    /\ GridRest

\* grid.get_mut(point); nothing is written through the reference
CallGetMut(coords, world, point) ==
    /\ phase = "idle"
    /\ call.n < MaxCalls
    /\ coords \in Loaded
    /\ \E g \in {TargetView(chunks, coords, world)} :
       \E r \in {Grid_get_mut(g, point)} :
           /\ chunks' = ApplyView(chunks, coords, r.g)
           /\ call' = Called("get_mut", g, coords, point, point, "Air", r)
    /\ GridRest

\* grid.replace(point, cell)
CallReplace(coords, world, point, cell) ==
    /\ phase = "idle"
    /\ call.n < MaxCalls
    /\ coords \in Loaded
    /\ \E g \in {TargetView(chunks, coords, world)} :
       \E r \in {Grid_replace(g, point, cell)} :
           /\ chunks' = ApplyView(chunks, coords, r.g)
           /\ call' = Called("replace", g, coords, point, point, cell, r)
    /\ GridRest

\* grid.swap(first, second)
CallSwap(coords, world, first, second) ==
    /\ phase = "idle"
    /\ call.n < MaxCalls
    /\ coords \in Loaded
    /\ \E g \in {TargetView(chunks, coords, world)} :
       \E r \in {Grid_swap(g, first, second)} :
           /\ chunks' = ApplyView(chunks, coords, r.g)
           /\ call' = Called("swap", g, coords, first, second, "Air", r)
    /\ GridRest

\* grid.clear_stain()
CallClearStain(coords, world) ==
    /\ phase = "idle"
    /\ call.n < MaxCalls
    /\ coords \in Loaded
    /\ \E g \in {TargetView(chunks, coords, world)} :
           /\ chunks' = ApplyView(chunks, coords, Grid_clear_stain(g))
           /\ call' = Called("clear_stain", g, coords, <<0, 0>>, <<0, 0>>, "Air", Ok("Air", g))
    /\ GridRest

\* grid.stain(area)
CallStain(coords, world, area) ==
    /\ phase = "idle"
    /\ call.n < MaxCalls
    /\ coords \in Loaded
    /\ \E g \in {TargetView(chunks, coords, world)} :
           /\ chunks' = ApplyView(chunks, coords, Grid_stain(g, area))
           /\ call' = Called("stain", g, coords, area.min, area.max, "Air", Ok("Air", g))
    /\ GridRest

\* grid.stain_point(point)
CallStainPoint(coords, world, point) ==
    /\ phase = "idle"
    /\ call.n < MaxCalls
    /\ coords \in Loaded
    /\ \E g \in {TargetView(chunks, coords, world)} :
           /\ chunks' = ApplyView(chunks, coords, Grid_stain_point(g, point))
           /\ call' = Called("stain_point", g, coords, point, point, "Air", Ok("Air", g))
    /\ GridRest

NextGrid ==
    \/ \E c \in ChunkIds, world \in BOOLEAN, point \in GridPoints : CallGet(c, world, point)
    \/ \E c \in ChunkIds, world \in BOOLEAN, point \in GridPoints : CallGetMut(c, world, point)
    \/ \E c \in ChunkIds, world \in BOOLEAN, point \in GridPoints, cell \in GridCells :
           CallReplace(c, world, point, cell)
    \/ \E c \in ChunkIds, world \in BOOLEAN, first \in GridPoints, second \in GridPoints :
           CallSwap(c, world, first, second)
    \/ \E c \in ChunkIds, world \in BOOLEAN : CallClearStain(c, world)
    \/ \E c \in ChunkIds, world \in BOOLEAN, area \in GridRects : CallStain(c, world, area)
    \/ \E c \in ChunkIds, world \in BOOLEAN, point \in GridPoints : CallStainPoint(c, world, point)

SpecGrid == InitGrid /\ [][NextGrid]_vars

(* ---- the coordinate conversions and the Area operations ---- *)

\* coordinates the conversions are called with: both sides of 0 and of the
\* chunk edges at -N, N - 1 and N
CoordValues == {-N - 1, -N, -1, 0, 1, N - 1, N}

CoordPoints == CoordValues \X CoordValues

\* the chunks whose ChunkCoords are used
CoordChunks == {<<0, 0>>, <<0, -1>>, <<-1, 1>>, <<1, -2>>}

\* number of calls in one run of the conversion and Area scenarios
MaxPureCalls == 2

\* apply_randomly is called on the areas of at most this many points
MaxShuffled == 4

\* rectangles the areas are made of: a square of four points, a row of two
\* that shares a point with it, and a single point left of the origin
PureRects ==
    {IRect(<<0, 0>>, <<1, 1>>), IRect(<<1, 1>>, <<2, 1>>), IRect(<<-1, 0>>, <<-1, 0>>),
     IRect(<<1, 1>>, <<0, 0>>)}

\* the areas the operations are called on
PureAreas ==
    {AreaEmpty, AreaMany(<<>>)} \cup {AreaOf(r) : r \in PureRects}
        \cup {AreaMany(<<r, q>>) : r \in PureRects, q \in PureRects}

\* the conversions change nothing: one settled chunk is loaded
InitPure ==
    /\ chunks = (A :> QuietChunk)
    /\ frames = NoFrames(0)
    /\ InitRest

\* the record of a conversion
Converted(op, coords, point, chunk, out) ==
    [op |-> op, on |-> coords, first |-> point, chunk |-> chunk, out |-> out,
     n |-> call.n + 1]

\* ChunkCoords::<N>::world_to_chunk_and_local(world)
CallWorldToChunkAndLocal(world) ==
    /\ phase = "idle"
    /\ call.n < MaxPureCalls
    /\ \E cl \in {world_to_chunk_and_local(world)} :
           call' = Converted("world_to_chunk_and_local", cl.chunk, world, cl.chunk, cl.local)
    /\ UNCHANGED chunks
    /\ GridRest

\* ChunkCoords(coords).local_to_world(local)
CallLocalToWorld(coords, local) ==
    /\ phase = "idle"
    /\ call.n < MaxPureCalls
    /\ call' = Converted("local_to_world", coords, local, coords, local_to_world(coords, local))
    /\ UNCHANGED chunks
    /\ GridRest

\* ChunkCoords(coords).world_to_local(world)
CallWorldToLocal(coords, world) ==
    /\ phase = "idle"
    /\ call.n < MaxPureCalls
    /\ call' = Converted("world_to_local", coords, world, coords, world_to_local(coords, world))
    /\ UNCHANGED chunks
    /\ GridRest

\* Area::from_areas(areas.into_iter())
CallFromAreas(areas) ==
    /\ phase = "idle"
    /\ call.n < MaxPureCalls
    /\ call' = [op |-> "from_areas", areas |-> areas, out |-> Area_from_areas(areas),
                n |-> call.n + 1]
    /\ UNCHANGED chunks
    /\ GridRest

\* area.apply(f); prev is the call before it, if that was an apply too
CallApply(area) ==
    /\ phase = "idle"
    /\ call.n < MaxPureCalls
    /\ call' = [op |-> "apply", area |-> area, out |-> Area_apply(area),
                prev |-> IF call.op = "apply"
                         THEN {[area |-> call.area, out |-> call.out]} ELSE {},
                n |-> call.n + 1]
    /\ UNCHANGED chunks
    /\ GridRest

\* area.apply_randomly(rng, f), the shuffle coming out as perm
CallApplyRandomly(area, perm) ==
    /\ phase = "idle"
    /\ call.n < MaxPureCalls
    /\ call' = [op |-> "apply_randomly", area |-> area,
                out |-> Area_apply_randomly(area, perm), n |-> call.n + 1]
    /\ UNCHANGED chunks
    /\ GridRest

CallIsEmpty(area) ==
    /\ phase = "idle"
    /\ call.n < MaxPureCalls
    /\ call' = [op |-> "is_empty", area |-> area, out |-> Area_is_empty(area),
                n |-> call.n + 1]
    /\ UNCHANGED chunks
    /\ GridRest

CallStainIsEmpty(stain) ==
    /\ phase = "idle"
    /\ call.n < MaxPureCalls
    /\ call' = [op |-> "stain_is_empty", area |-> stain, out |-> Stain_is_empty(stain),
                n |-> call.n + 1]
    /\ UNCHANGED chunks
    /\ GridRest

NextPure ==
    \/ \E first \in PureAreas, second \in PureAreas :
           \E areas \in {<<>>, <<first>>, <<first, second>>} : CallFromAreas(areas)
    \/ \E area \in PureAreas : CallApply(area)
    \/ \E area \in PureAreas : CallIsEmpty(area)
    \/ \E stain \in PureAreas : CallStainIsEmpty(stain)
    \/ \E area \in {a \in PureAreas : Len(Area_choices(a)) <= MaxShuffled} :
           \E perm \in Permutations(1 .. Len(Area_choices(area))) :
               CallApplyRandomly(area, perm)
    \/ \E world \in CoordPoints : CallWorldToChunkAndLocal(world)
    \/ \E coords \in CoordChunks, local \in CoordPoints : CallLocalToWorld(coords, local)
    \/ \E coords \in CoordChunks, world \in CoordPoints : CallWorldToLocal(coords, world)

SpecPure == InitPure /\ [][NextPure]_vars

(* ------------------------------------------------------------------ *)
(* Properties                                                          *)
(* ------------------------------------------------------------------ *)

\* number of discrete steps begun in the current frame
FrameSteps == steps - frame.steps0

\* the accumulator of the current frame right after line 167
Accumulated == frame.before + frame.added

\* C1: in every frame tick_rate * elapsed is first added to the accumulator;
\* a discrete step runs in the frame iff the accumulator is then >= 1, and
\* never more than one step runs in a frame, however much is owed.
C1_OneStepPerFrame ==
    /\ FrameSteps \in {0, 1}
    /\ (FrameSteps = 1) <=> (Accumulated >= Scale)
    /\ phase # "idle" => (FrameSteps = 1 /\ ticks = Accumulated /\ ~ frame.done)

\* a finished frame that owed three ticks or more and ran exactly one step
C1_Witness ==
    /\ phase = "idle"
    /\ frame.done
    /\ Accumulated >= 3 * Scale
    /\ FrameSteps = 1

\* C2: after a frame in which a step ran the accumulator is
\* clamp(accumulator - 1, 0, 1); at the end of every frame it lies in [0, 1].
C2_ClampedAccumulator ==
    /\ phase = "idle" => (0 <= ticks /\ ticks <= Scale)
    /\ (frame.done /\ FrameSteps = 1) => ticks = Max(0, Min(Accumulated - Scale, Scale))
    /\ (frame.done /\ FrameSteps = 0) => ticks = Accumulated

\* a frame whose step left more than one tick of backlog, which was dropped
C2_Witness ==
    /\ frame.done
    /\ FrameSteps = 1
    /\ Accumulated - Scale > Scale
    /\ ticks = Scale

\* the world coordinate of a chunk-local point, by plain arithmetic
WorldOf(c, p) == <<N * c[1] + p[1], N * c[2] + p[2]>>

\* how many times x occurs in the sequence s
Count(s, x) == Cardinality({i \in 1 .. Len(s) : s[i] = x})

\* the points a cell at p may read or write: its range translated to p
Reach(cell, p) ==
    {<<p[1] + dx, p[2] + dy>> : dx \in range(cell).min[1] .. range(cell).max[1],
                                dy \in range(cell).min[2] .. range(cell).max[2]}

\* a discrete step has just ended
StepEnded == phase = "idle" /\ ev.op = "clamp"

\* C3: no two actors write the same chunk at the same time. A parallel task
\* writes (cells or stain) only the chunk it was given; the control thread
\* writes chunks only in the serial phase, when every task has finished.
C3_ExclusiveWriters ==
    /\ ev.actor \in ChunkIds =>
          /\ ev.wrote \subseteq {ev.actor}
          /\ ev.op \in {"start", "visit", "panic", "finish"}
    /\ (ev.actor = Control /\ ev.wrote # {}) =>
          /\ ev.op \in {"stains", "serial"}
          /\ \A c \in Loaded : task[c] = "done"

\* a task has just written its own chunk while the other chunk's task was
\* still running
C3_Witness ==
    /\ ev.op = "visit"
    /\ ev.wrote = {ev.actor}
    /\ \E d \in Loaded : d # ev.actor /\ task[d] = "running"

\* C4: merge barrier. Errors are drained, boundary stains applied and
\* deferred points consumed only when every task of the step has finished
\* and the three senders are dropped; when the step ends the channels are
\* empty and everything sent in the step has been received in the step.
C4_MergeBarrier ==
    /\ (phase \in {"errors", "stains", "deferred"}
        \/ ev.op \in {"errors", "stains", "serial", "clamp"}) =>
          /\ \A c \in Loaded : task[c] = "done" /\ pending[c] = {}
          /\ senders = {}
    /\ (taken.to_tick # <<>> \/ taken.stains # <<>> \/ taken.errors # <<>>) =>
          /\ \A c \in Loaded : task[c] = "done"
          /\ senders = {}
    /\ phase = "idle" =>
          /\ to_tick = <<>> /\ errors = <<>> /\ stains = <<>>
          /\ taken = sent

\* a step has ended in which a deferred point and a boundary stain were sent,
\* and both were consumed
C4_Witness ==
    /\ StepEnded
    /\ sent.to_tick # <<>>
    /\ sent.stains # <<>>
    /\ taken = sent

Uncovered(cell, p) ==
    \E q \in Reach(cell, p) : <<q[1] \div N, q[2] \div N>> \notin Loaded

\* C6: a deferred point whose translated range is not covered by loaded
\* chunks is still in its chunk's dirty region when the step has ended.
C6_UncoveredStaysDirty ==
    StepEnded =>
        \A d \in dispatch :
            (d.how = "skip" /\ Uncovered(d.cell, WorldOf(d.chunk, d.point))) =>
                Area_contains(Chunk_stained(chunks[d.chunk]), d.point)

\* C7: a deferred point whose translated range is not covered by loaded
\* chunks is skipped silently: no tick, no error, no chunk changed.
C7_UncoveredSkipped ==
    (ev.op = "serial" /\ Uncovered(ev.cell, ev.point)) =>
        /\ ~ ev.ticked
        /\ ev.res = "none"
        /\ ev.logged = 0
        /\ ev.wrote = {}
        /\ \A e \in 1 .. Len(log) : log[e].point # ev.point

\* the serial phase has just skipped a point whose range reaches an unloaded
\* chunk, while another chunk is loaded
C7_Witness ==
    /\ ev.op = "serial"
    /\ Uncovered(ev.cell, ev.point)
    /\ ~ ev.ticked
    /\ Cardinality(Loaded) = 2

\* the errors recorded so far in this step: still in the channel or logged
Recorded == errors \o log

\* C8: a failing tick does not abort the step. Right after it the task (or
\* the control thread) is still running its loop and the failure is recorded
\* once with the world coordinate of the point; when the step has ended every
\* point of every stain0 was dispatched, every deferred point was processed,
\* the failures logged are exactly the failed ticks, and the accumulator was
\* updated.
C8_FailureDoesNotAbort ==
    /\ (ev.op \in {"visit", "serial"} /\ ev.res = "Err") =>
          /\ IF ev.op = "visit"
             THEN phase = "parallel" /\ task[ev.actor] = "running"
             ELSE phase = "deferred"
          /\ Cardinality({e \in 1 .. Len(Recorded) : Recorded[e].point = ev.point}) = 1
    /\ \A d \in dispatch : d.res = "Err" =>
          Cardinality({e \in 1 .. Len(Recorded) :
                          Recorded[e].point = WorldOf(d.chunk, d.point)}) = 1
    /\ StepEnded =>
          /\ \A c \in Loaded : \A p \in stain0[c] :
                \E d \in dispatch : d.chunk = c /\ d.point = p /\ d.how \in {"tick", "defer"}
          /\ \A d \in dispatch : d.how = "defer" =>
                \E k \in dispatch : /\ k.chunk = d.chunk /\ k.point = d.point
                                    /\ k.how \in {"serial", "skip"}
          /\ Len(log) = Cardinality({d \in dispatch : d.res = "Err"})
          /\ frame.done
          /\ ticks = Max(0, Min(Accumulated - Scale, Scale))

\* a step has ended in which a tick failed in the upper chunk and points of
\* the other chunk were dispatched all the same
C8_Witness ==
    /\ StepEnded
    /\ \E d \in dispatch : d.chunk = B /\ d.res = "Err"
    /\ \E d \in dispatch : d.chunk = A /\ d.res # "Err"
    /\ Len(log) >= 1

\* C9: a discrete step never panics: every at() the scheduler calls is on a
\* point inside a loaded chunk, whatever stain rectangles were recorded.
C9_NeverPanics ==
    /\ ev.op # "panic"
    /\ phase # "panicked"
    /\ \A c \in Loaded : task[c] # "panicked"

\* C10: stained() is the recorded stain intersected with the chunk bounds:
\* it contains a point iff a stain is recorded, the point lies in
\* [0,N)x[0,N) and the point lies in the recorded rectangle.
C10_StainedIsIntersection ==
    \A c \in Loaded :
        \A p \in RectPoints(IRect(<<-2, -2>>, <<N + 1, N + 1>>)) :
            Area_contains(Chunk_stained(chunks[c]), p) <=>
                /\ chunks[c].stain.some
                /\ p[1] \in 0 .. N - 1 /\ p[2] \in 0 .. N - 1
                /\ rect_contains_inclusive(chunks[c].stain.rect, p)

\* the local points holding a cell of the given kind
Where(chunk, cell) == {p \in RectPoints(Chunk_area) : Chunk_get(chunk, p).val = cell}

\* C11: a fresh 4x4 chunk with a falling cell at (0,0) and empty cells
\* elsewhere: after exactly one discrete step, whatever the visiting order,
\* the falling cell is at (0,1) and the dirty region contains (0,0) and (0,1).
C11_FallsOneCell ==
    (StepEnded /\ steps = 1) =>
        /\ Where(chunks[A], "Fall") = {<<0, 1>>}
        /\ Area_contains(Chunk_stained(chunks[A]), <<0, 0>>)
        /\ Area_contains(Chunk_stained(chunks[A]), <<0, 1>>)

\* the frames recorded up to the k-th all ran at 2 ticks per second and
\* lasted 0.3 s
ThreeTenths(k) ==
    \A i \in 1 .. k : /\ frames.log[i].tick_rate = 2
                      /\ 10 * frames.log[i].delta_seconds = 3 * Scale

\* C12: from accumulator 0, at 2 ticks per second, four frames of 0.3 s leave
\* the accumulator at 0.6, 0.2, 0.8, 0.4; a step runs in frames 2 and 4 only,
\* 2 steps in all.
C12_TickRateScenario ==
    \A k \in 1 .. Min(4, Len(frames.log)) :
        ThreeTenths(k) =>
            /\ 10 * frames.log[k].after = <<6, 2, 8, 4>>[k] * Scale
            /\ frames.log[k].stepped <=> k \in {2, 4}
            /\ frames.log[k].steps = <<0, 1, 1, 2>>[k]

\* four frames of 0.3 s at 2 ticks per second have just ended
C12_Witness ==
    /\ Len(frames.log) = 4
    /\ ThreeTenths(4)
    /\ phase = "idle"
    /\ steps = 2
    /\ 10 * ticks = 4 * Scale

\* C13: a point whose tick returned Unstable (in either phase) is in its
\* chunk's dirty region when the step has ended, and the next step
\* dispatches it again (ticks or defers it).
C13_UnstableRetried ==
    /\ StepEnded =>
          \A d \in dispatch : d.res = "Unstable" =>
              Area_contains(Chunk_stained(chunks[d.chunk]), d.point)
    /\ \A u \in frame.retry :
          /\ task[u.chunk] # "waiting" => u.point \in stain0[u.chunk]
          /\ task[u.chunk] = "done" =>
                \E d \in dispatch : /\ d.chunk = u.chunk /\ d.point = u.point
                                    /\ d.how \in {"tick", "defer"}

\* a second step has ended that dispatched again a point whose tick changed
\* nothing and returned Unstable in the first step
C13_Witness ==
    /\ StepEnded
    /\ steps = 2
    /\ \E u \in frame.retry :
          /\ Chunk_get(chunks[u.chunk], u.point).val = "Spin"
          /\ \E d \in dispatch : d.chunk = u.chunk /\ d.point = u.point /\ d.how = "tick"

\* the chunk coordinates a world point falls in, by floor division
ChunkOf(p) == <<p[1] \div N, p[2] \div N>>

\* a boundary stain received in this step reaches chunk c
StainTouches(c) ==
    \E i \in 1 .. Len(taken.stains) :
        /\ c[1] \in ChunkOf(taken.stains[i].min)[1] .. ChunkOf(taken.stains[i].max)[1]
        /\ c[2] \in ChunkOf(taken.stains[i].min)[2] .. ChunkOf(taken.stains[i].max)[2]

\* a serial-phase tick of this step has a range that reaches chunk c
SerialTouches(c) ==
    \E d \in dispatch :
        /\ d.how = "serial"
        /\ \E q \in Reach(d.cell, WorldOf(d.chunk, d.point)) : ChunkOf(q) = c

\* C14: a chunk with no recorded stain when a step starts has no cell ticked
\* or deferred in the parallel phase; if no boundary stain and no serial tick
\* reaches it either, the step leaves its cells and its stain as they were.
C14_Incremental ==
    \A c \in Loaded :
        (FrameSteps = 1 /\ ~ frame.start[c].stain.some) =>
            /\ stain0[c] = {}
            /\ \A d \in dispatch : d.how \in {"tick", "defer"} => d.chunk # c
            /\ phase = "parallel" => chunks[c] = frame.start[c]
            /\ (~ StainTouches(c) /\ ~ SerialTouches(c)) => chunks[c] = frame.start[c]

\* a step has ended that changed the lower chunk and left the upper chunk,
\* which had no stain, untouched
C14_Witness ==
    /\ StepEnded
    /\ B \in Loaded
    /\ ~ frame.start[B].stain.some
    /\ chunks[B] = frame.start[B]
    /\ chunks[A].data # frame.start[A].data

\* the recorded stain of a chunk leaves [0,N)x[0,N)
Overflows(chunk) ==
    /\ chunk.stain.some
    /\ \E i \in {1, 2} : \/ chunk.stain.rect.min[i] < 0
                         \/ chunk.stain.rect.max[i] > N - 1

\* a chunk-local rectangle in world coordinates, by plain arithmetic
WorldRect(c, r) == [min |-> WorldOf(c, r.min), max |-> WorldOf(c, r.max)]

\* the world point q is in the dirty region of the loaded chunk it falls in
Dirty(q) ==
    Area_contains(Chunk_stained(chunks[ChunkOf(q)]),
                  <<q[1] - N * ChunkOf(q)[1], q[2] - N * ChunkOf(q)[2]>>)

\* C15: a chunk whose recorded stain leaves its bounds at the end of its
\* parallel task forwards the rectangle; once the serial phase has drained the
\* boundary stains, and still at the end of the step, every point of the
\* rectangle that lies in a loaded chunk is in that chunk's dirty region; the
\* parts in chunks that are not loaded are dropped and no error is logged.
C15_BoundaryStainForwarded ==
    /\ \A c \in Loaded : (phase = "parallel" /\ task[c] = "done") =>
          Count(sent.stains, WorldRect(c, chunks[c].stain.rect))
             = (IF Overflows(chunks[c]) THEN 1 ELSE 0)
    /\ (phase \in {"deferred", "idle"} /\ FrameSteps = 1) =>
          /\ taken.stains = sent.stains
          /\ \A i \in 1 .. Len(sent.stains) : \A q \in RectPoints(sent.stains[i]) :
                ChunkOf(q) \in Loaded => Dirty(q)
    /\ ev.op = "stains" => (ev.logged = 0 /\ log = taken.errors)

\* a step has ended in which a forwarded stain reaches into the upper chunk,
\* which had no stain of its own when the step began
C15_Witness ==
    /\ StepEnded
    /\ B \in Loaded
    /\ ~ frame.start[B].stain.some
    /\ \E i \in 1 .. Len(sent.stains) :
          /\ \E q \in RectPoints(sent.stains[i]) : ChunkOf(q) = B /\ Dirty(q)
    /\ chunks[B].stain.some

\* world points in and around the chunks A and B
WorldBox == RectPoints(IRect(<<-1, -N - 1>>, <<N, N>>))

\* C16: in the serial phase a deferred point is ticked iff every point of the
\* range of the cell now at the point, translated to the point, lies in a
\* loaded chunk; covers() contains a world point iff the chunk
\* floor(point / N) is held.
C16_SerialTickIffCovered ==
    /\ ev.op = "serial" =>
          /\ ev.ticked <=> (\A q \in Reach(ev.cell, ev.point) : ChunkOf(q) \in Loaded)
          /\ ~ ev.ticked => WorldGrid_get(chunks, ev.point).val = ev.cell
    /\ With(WorldGrid_covers(chunks), LAMBDA covers :
          \A p \in WorldBox : Area_contains(covers, p) <=> ChunkOf(p) \in Loaded)
    /\ phase = "deferred" =>
          \A p \in WorldBox : Area_contains(world_covers, p) <=> ChunkOf(p) \in Loaded

\* the serial phase has just ticked a deferred point whose range spans two
\* loaded chunks
C16_Witness ==
    /\ ev.op = "serial"
    /\ ev.ticked
    /\ \E q \in Reach(ev.cell, ev.point) : ChunkOf(q) # ChunkOf(ev.point)
    /\ \A q \in Reach(ev.cell, ev.point) : ChunkOf(q) \in Loaded

\* the world point a call's argument denotes: a chunk-local point of the
\* chunk called on, or a world point of the WorldGrid
Denotes(p) == IF call.view = "Chunk" THEN WorldOf(call.on, p) ELSE p

\* the cell stored for the world point q, read straight from the cell array
Stored(all, q) ==
    all[ChunkOf(q)].data[N * (q[2] - N * ChunkOf(q)[2]) + (q[1] - N * ChunkOf(q)[1]) + 1]

\* every cell of every chunk but those at the world points in keep is as it
\* was before the call
OthersKept(keep) ==
    \A c \in Loaded : \A x \in 0 .. N - 1, y \in 0 .. N - 1 :
        WorldOf(c, <<x, y>>) \notin keep =>
            Stored(chunks, WorldOf(c, <<x, y>>)) = Stored(call.before, WorldOf(c, <<x, y>>))

\* C17: a successful swap(a, b), within one chunk (Chunk::swap or
\* WorldGrid::swap) or across two loaded chunks, exchanges the values at a and
\* b, leaves both in their chunk's dirty region and changes no other cell.
C17_SwapExchanges ==
    (call.op = "swap" /\ call.ok) =>
        /\ Stored(chunks, Denotes(call.first)) = Stored(call.before, Denotes(call.second))
        /\ Stored(chunks, Denotes(call.second)) = Stored(call.before, Denotes(call.first))
        /\ Dirty(Denotes(call.first))
        /\ Dirty(Denotes(call.second))
        /\ OthersKept({Denotes(call.first), Denotes(call.second)})

\* a swap through the WorldGrid has just exchanged two different cells of two
\* different chunks
C17_Witness ==
    /\ call.op = "swap"
    /\ call.ok
    /\ call.view = "WorldGrid"
    /\ ChunkOf(call.first) # ChunkOf(call.second)
    /\ Stored(call.before, call.first) # Stored(call.before, call.second)
    /\ Stored(chunks, call.first) = Stored(call.before, call.second)

\* the point lies in [0,N)x[0,N)
InBounds(p) == p[1] \in 0 .. N - 1 /\ p[2] \in 0 .. N - 1

\* C18: a WorldGrid::swap across two chunks fails with SwapOutOfBounds
\* carrying the two chunk coordinates when either chunk is not held;
\* Chunk::swap fails with LocalOutOfBounds when either point is outside
\* [0,N)x[0,N); a failed swap leaves every cell and every stain unchanged.
C18_FailedSwapChangesNothing ==
    call.op = "swap" =>
        /\ (/\ call.view = "WorldGrid"
            /\ ChunkOf(call.first) # ChunkOf(call.second)
            /\ ~ (ChunkOf(call.first) \in Loaded /\ ChunkOf(call.second) \in Loaded)) =>
              /\ ~ call.ok
              /\ call.err = [kind |-> "SwapOutOfBounds", first |-> ChunkOf(call.first),
                             second |-> ChunkOf(call.second)]
        /\ (call.view = "Chunk" /\ ~ (InBounds(call.first) /\ InBounds(call.second))) =>
              /\ ~ call.ok
              /\ call.err.kind = "LocalOutOfBounds"
              /\ call.err.first = (IF InBounds(call.first) THEN call.second ELSE call.first)
        /\ ~ call.ok => chunks = call.before

\* a swap across two chunks has just failed because the second chunk is not
\* held; the first point is in a held chunk and was not stained
C18_Witness ==
    /\ call.op = "swap"
    /\ call.view = "WorldGrid"
    /\ ~ call.ok
    /\ call.err.kind = "SwapOutOfBounds"
    /\ ChunkOf(call.first) \in Loaded
    /\ ~ Dirty(call.first)
    /\ chunks = call.before

\* C19: Chunk::get(p) succeeds exactly when p is in [0,N)x[0,N) and returns
\* the cell stored there, otherwise it fails with LocalOutOfBounds(p); in a
\* default chunk every in-bounds get returns the default cell; get changes
\* neither cells nor stain.
C19_ChunkGet ==
    (call.op = "get" /\ call.view = "Chunk") =>
        /\ call.ok <=> InBounds(call.first)
        /\ call.ok => call.val = Stored(call.before, Denotes(call.first))
        /\ (call.ok /\ call.before[call.on] = Chunk_default) => call.val = DefaultCell
        /\ ~ call.ok => call.err = [kind |-> "LocalOutOfBounds", first |-> call.first,
                                    second |-> <<0, 0>>]
        /\ chunks = call.before

\* a get in a freshly constructed default chunk has just returned the default
\* cell
C19_Witness ==
    /\ call.op = "get"
    /\ call.view = "Chunk"
    /\ call.before[call.on] = Chunk_default
    /\ call.ok
    /\ call.val = DefaultCell

\* C20: chunk.replace(p, v) at an in-bounds p returns the value that was at p;
\* afterwards get(p) is v, stained() contains p and no other cell has changed;
\* after clear_stain() stained() is empty and does not contain p.
C20_ReplaceStains ==
    (call.op = "replace" /\ call.view = "Chunk" /\ InBounds(call.first)) =>
        /\ call.ok
        /\ call.val = Stored(call.before, Denotes(call.first))
        /\ Chunk_get(chunks[call.on], call.first).ok
        /\ Chunk_get(chunks[call.on], call.first).val = call.cell
        /\ Area_contains(Chunk_stained(chunks[call.on]), call.first)
        /\ OthersKept({Denotes(call.first)})
        /\ ~ Area_contains(Chunk_stained(Chunk_clear_stain(chunks[call.on])), call.first)
        /\ Area_points(Chunk_stained(Chunk_clear_stain(chunks[call.on]))) = {}

\* a replace has just put a new value at a point that was not in the dirty
\* region before
C20_Witness ==
    /\ call.op = "replace"
    /\ call.view = "Chunk"
    /\ call.ok
    /\ call.val # call.cell
    /\ ~ Area_contains(Chunk_stained(call.before[call.on]), call.first)
    /\ Area_contains(Chunk_stained(chunks[call.on]), call.first)

\* C21: Chunk::get_mut(p) stains p exactly when it succeeds: for p in
\* [0,N)x[0,N) it returns the cell at p, adds p to the recorded stain and
\* changes no cell; for p outside, get_mut and replace fail with
\* LocalOutOfBounds(p) and leave the chunk's cells and stain as they were.
C21_GetMutStainsOnSuccess ==
    (call.op \in {"get_mut", "replace"} /\ call.view = "Chunk") =>
        /\ call.ok <=> InBounds(call.first)
        /\ ~ call.ok =>
              /\ call.err = [kind |-> "LocalOutOfBounds", first |-> call.first,
                             second |-> <<0, 0>>]
              /\ chunks = call.before
        /\ (call.ok /\ call.op = "get_mut") =>
              /\ call.val = Stored(call.before, Denotes(call.first))
              /\ chunks[call.on].data = call.before[call.on].data
              /\ chunks[call.on].stain.some
              /\ chunks[call.on].stain.rect =
                    (IF call.before[call.on].stain.some
                     THEN rect_union_point(call.before[call.on].stain.rect, call.first)
                     ELSE IRect(call.first, call.first))
              /\ Area_contains(Chunk_stained(chunks[call.on]), call.first)
              /\ \A d \in Loaded \ {call.on} : chunks[d] = call.before[d]

\* a get_mut outside the chunk has just failed on a chunk with a stain, and a
\* get_mut inside is possible on the same chunk
C21_Witness ==
    /\ call.op = "get_mut"
    /\ call.view = "Chunk"
    /\ ~ call.ok
    /\ call.first = <<N, 0>>
    /\ call.before[call.on].stain.some
    /\ chunks = call.before
    /\ Chunk_get_mut(chunks[call.on], <<0, 0>>).ok

\* chunk coordinates around the origin, enough to hold every chunk a point of
\* CoordPoints can lie in and its neighbours
NearChunks == (-3 .. 3) \X (-3 .. 3)

\* C22: for every world point w, negative coordinates included,
\* world_to_chunk_and_local(w) = (c, l) has l in [0,N)x[0,N) and N*c + l = w,
\* and no other pair (c, l) does; local_to_world and world_to_local of one
\* chunk undo each other.
C22_ChunkCoords ==
    /\ call.op = "world_to_chunk_and_local" =>
          /\ InBounds(call.out)
          /\ <<N * call.chunk[1] + call.out[1], N * call.chunk[2] + call.out[2]>> = call.first
          /\ \A c \in NearChunks : \A x \in 0 .. N - 1, y \in 0 .. N - 1 :
                 <<N * c[1] + x, N * c[2] + y>> = call.first =>
                     (c = call.chunk /\ <<x, y>> = call.out)
    /\ call.op = "local_to_world" =>
          /\ call.out = <<N * call.on[1] + call.first[1], N * call.on[2] + call.first[2]>>
          /\ world_to_local(call.on, call.out) = call.first
    /\ call.op = "world_to_local" =>
          /\ call.out = <<call.first[1] - N * call.on[1], call.first[2] - N * call.on[2]>>
          /\ local_to_world(call.on, call.out) = call.first

\* a world point with two negative coordinates that are not multiples of N has
\* just been converted
C22_Witness ==
    /\ call.op = "world_to_chunk_and_local"
    /\ call.first = <<-1, -N - 1>>
    /\ call.chunk = <<-1, -2>>
    /\ call.out = <<N - 1, N - 1>>

\* the local point of the world point p in the chunk it falls in
LocalOf(p) == <<p[1] - N * ChunkOf(p)[1], p[2] - N * ChunkOf(p)[2]>>

\* C23: WorldGrid::get(w) and get_mut(w) address the cell at local w mod N of
\* the chunk floor(w / N): they fail with ChunkOutOfBounds(that chunk
\* coordinate) exactly when the chunk is not held, otherwise they return what
\* the chunk's get / get_mut returns at the local point; get changes nothing,
\* get_mut stains the local point in that chunk and changes nothing else.
C23_WorldGridGet ==
    (call.op \in {"get", "get_mut"} /\ call.view = "WorldGrid") =>
        /\ call.ok <=> ChunkOf(call.first) \in Loaded
        /\ ~ call.ok =>
              /\ call.err = [kind |-> "ChunkOutOfBounds", first |-> ChunkOf(call.first),
                             second |-> <<0, 0>>]
              /\ chunks = call.before
        /\ call.ok =>
              /\ Chunk_get(call.before[ChunkOf(call.first)], LocalOf(call.first)).ok
              /\ call.val = Chunk_get(call.before[ChunkOf(call.first)], LocalOf(call.first)).val
              /\ call.val = Stored(call.before, call.first)
        /\ call.op = "get" => chunks = call.before
        /\ (call.op = "get_mut" /\ call.ok) =>
              /\ chunks[ChunkOf(call.first)] =
                    Chunk_stain_point(call.before[ChunkOf(call.first)], LocalOf(call.first))
              /\ \A d \in Loaded \ {ChunkOf(call.first)} : chunks[d] = call.before[d]

\* a get_mut through the WorldGrid has just returned a cell of the bottom row
\* of the chunk above the origin and stained it there, and only there
C23_Witness ==
    /\ call.op = "get_mut"
    /\ call.view = "WorldGrid"
    /\ call.ok
    /\ call.first = <<1, -1>>
    /\ ~ Area_contains(Chunk_stained(call.before[B]), <<1, N - 1>>)
    /\ Area_contains(Chunk_stained(chunks[B]), <<1, N - 1>>)
    /\ chunks[A] = call.before[A]

\* the points around the rectangles of PureRects
AreaBox == (-2 .. 3) \X (-2 .. 3)

\* C24: for all rectangles r1, r2 and points pt,
\* Area::from_areas([r1, r2]).contains(pt) is true iff r1 contains pt or r2
\* contains pt, bounds inclusive (and likewise for inputs of several
\* rectangles); Empty inputs contribute nothing, and from_areas of only Empty
\* inputs, or of none, is Empty.
C24_FromAreasContains ==
    call.op = "from_areas" =>
        /\ \A pt \in AreaBox :
              Area_contains(call.out, pt) <=>
                  \E i \in 1 .. Len(call.areas) : \E j \in 1 .. Len(call.areas[i].rects) :
                      /\ call.areas[i].rects[j].min[1] <= pt[1]
                      /\ pt[1] <= call.areas[i].rects[j].max[1]
                      /\ call.areas[i].rects[j].min[2] <= pt[2]
                      /\ pt[2] <= call.areas[i].rects[j].max[2]
        /\ (\A i \in 1 .. Len(call.areas) : call.areas[i].tag = "Empty") => call.out = AreaEmpty
        /\ call.out = Area_from_areas(SelectSeq(call.areas, LAMBDA a : a.tag # "Empty"))

\* from_areas has just been given two overlapping rectangles: the result
\* contains a point of the first only, a point of the second only and the
\* point they share, and not the point next to them
C24_Witness ==
    /\ call.op = "from_areas"
    /\ call.areas = <<AreaOf(IRect(<<0, 0>>, <<1, 1>>)), AreaOf(IRect(<<1, 1>>, <<2, 1>>))>>
    /\ Area_contains(call.out, <<0, 0>>)
    /\ Area_contains(call.out, <<2, 1>>)
    /\ Area_contains(call.out, <<1, 1>>)
    /\ ~ Area_contains(call.out, <<2, 0>>)

\* the number of points of the first i rectangles
RECURSIVE SizeOfFirst(_, _)
SizeOfFirst(rects, i) ==
    IF i = 0 THEN 0 ELSE SizeOfFirst(rects, i - 1) + Cardinality(RectPoints(rects[i]))

\* p comes before q in row-major order
RowMajorBefore(p, q) == p[2] < q[2] \/ (p[2] = q[2] /\ p[1] < q[1])

\* C25: Area::apply goes through the constituent rectangles one after the
\* other and visits every integer point of each exactly once, in row-major
\* order; two consecutive calls on the same Area produce the same sequence;
\* the set of points visited is the set of points contains is true for.
C25_ApplyRowMajor ==
    call.op = "apply" =>
        /\ Len(call.out) = SizeOfFirst(call.area.rects, Len(call.area.rects))
        /\ \A i \in 1 .. Len(call.area.rects) :
              /\ {call.out[SizeOfFirst(call.area.rects, i - 1) + k] :
                     k \in 1 .. Cardinality(RectPoints(call.area.rects[i]))}
                   = RectPoints(call.area.rects[i])
              /\ \A k, l \in 1 .. Cardinality(RectPoints(call.area.rects[i])) :
                     k < l => RowMajorBefore(call.out[SizeOfFirst(call.area.rects, i - 1) + k],
                                             call.out[SizeOfFirst(call.area.rects, i - 1) + l])
        /\ {call.out[k] : k \in 1 .. Len(call.out)} =
              {p \in AreaBox : Area_contains(call.area, p)}
        /\ \A q \in call.prev : q.area = call.area => q.out = call.out

\* apply has just been called for the second time in a row on an area of two
\* overlapping rectangles: the point they share was visited once for each
C25_Witness ==
    /\ call.op = "apply"
    /\ call.area = AreaMany(<<IRect(<<0, 0>>, <<1, 1>>), IRect(<<1, 1>>, <<2, 1>>)>>)
    /\ call.prev = {[area |-> call.area, out |-> call.out]}
    /\ call.out = <<<<0, 0>>, <<1, 0>>, <<0, 1>>, <<1, 1>>, <<1, 1>>, <<2, 1>>>>

\* C26: for every Area and every outcome of the shuffle, apply_randomly
\* visits each point as many times as apply does, only the order differs; it
\* visits nothing for Empty.
C26_ApplyRandomlySameMultiset ==
    call.op = "apply_randomly" =>
        /\ Len(call.out) = Len(Area_apply(call.area))
        /\ \A p \in AreaBox : Count(call.out, p) = Count(Area_apply(call.area), p)
        /\ call.area = AreaEmpty => call.out = <<>>

\* apply_randomly has just visited the points of an area that lists one
\* rectangle twice, each point twice, in another order than apply does
C26_Witness ==
    /\ call.op = "apply_randomly"
    /\ call.area = AreaMany(<<IRect(<<1, 1>>, <<2, 1>>), IRect(<<1, 1>>, <<2, 1>>)>>)
    /\ Area_apply(call.area) = <<<<1, 1>>, <<2, 1>>, <<1, 1>>, <<2, 1>>>>
    /\ call.out = <<<<2, 1>>, <<2, 1>>, <<1, 1>>, <<1, 1>>>>

\* the task of the chunk at coords run on its own: the chunk after the
\* closure has been called on the points of order, one after the other, with
\* no other chunk in existence
RECURSIVE Replay(_, _, _)
Replay(chunk, coords, order) ==
    IF order = <<>> THEN chunk
    ELSE Replay(visit_local((coords :> chunk), coords, Head(order)).chunks[coords],
                coords, Tail(order))

\* C27: the cells and the stain a chunk has at the merge barrier are those its
\* own task produces from the chunk's state at the start of the step and the
\* order of its own visits, whatever the other tasks did and however they
\* were interleaved with it; this holds all through the parallel phase.
C27_ChunkTaskDeterminism ==
    phase \in {"parallel", "errors", "panicked"} =>
        \A c \in Loaded :
            chunks[c] = (IF task[c] = "waiting" THEN frame.start[c]
                         ELSE Replay(Chunk_clear_stain(frame.start[c]), c, frame.order[c]))

\* the barrier has just been passed; the tasks of two chunks each ticked a
\* cell and changed their chunk
C27_Witness ==
    /\ phase = "errors"
    /\ Loaded = {A, B}
    /\ chunks[A].data # frame.start[A].data
    /\ chunks[B].data # frame.start[B].data
    /\ frame.order[A] # <<>>
    /\ frame.order[B] # <<>>

\* the recorded stain s lies within the recorded stain t
Within(s, t) ==
    s.some =>
        /\ t.some
        /\ t.rect.min[1] <= s.rect.min[1] /\ t.rect.min[2] <= s.rect.min[2]
        /\ s.rect.max[1] <= t.rect.max[1] /\ s.rect.max[2] <= t.rect.max[2]

\* nothing has stained chunk c in this step: every cell ticked in it was Air,
\* no boundary stain and no serial tick reached it
NothingStained(c) ==
    /\ \A d \in dispatch : (d.chunk = c /\ d.how = "tick") => d.cell = "Air"
    /\ ~ StainTouches(c)
    /\ ~ SerialTouches(c)

\* the step just taken is the start of the task of chunk c
Starts(c) == ev'.op = "start" /\ ev'.actor = c

\* C28: in each step the stain of every loaded chunk is cleared exactly once:
\* by the start of the chunk's parallel task, which happens once per step and
\* before any point of the chunk is visited; no other step of the parallel or
\* the serial phase makes a recorded stain smaller; a chunk that nothing has
\* stained during the step ends the step with no stain and an empty stained(),
\* whatever it held before.
C28_ClearedOncePerStep ==
    /\ [](\A c \in Loaded :
            /\ phase \in {"errors", "stains", "deferred"} => task[c] = "done"
            /\ (FrameSteps = 1 /\ task[c] # "waiting" /\ NothingStained(c)) =>
                  /\ ~ chunks[c].stain.some
                  /\ Chunk_stained(chunks[c]) = AreaEmpty)
    /\ [][\A c \in Loaded :
            /\ Starts(c) =>
                  /\ phase = "parallel"
                  /\ task[c] = "waiting"
                  /\ task'[c] = "running"
                  /\ \A d \in dispatch : d.chunk # c
                  /\ ~ chunks'[c].stain.some
            /\ ~ Starts(c) =>
                  /\ Within(chunks[c].stain, chunks'[c].stain)
                  /\ task[c] = "waiting" => task'[c] = "waiting"
            /\ (task[c] # "waiting" /\ task'[c] = "waiting") => ev'.op = "frame"
            /\ (ev'.op \in {"visit", "panic"} /\ ev'.actor = c) => task[c] = "running"]_vars

\* a step has ended in which the task of a stained chunk visited a point and
\* nothing stained the chunk: its stain is gone
C28_Witness ==
    /\ StepEnded
    /\ \E c \in Loaded :
          /\ frame.start[c].stain.some
          /\ \E d \in dispatch : d.chunk = c /\ d.how = "tick"
          /\ NothingStained(c)
          /\ ~ chunks[c].stain.some

\* the world footprint of chunk c
Footprint(c) == IRect(WorldOf(c, <<0, 0>>), WorldOf(c, <<N - 1, N - 1>>))

\* the rectangles r and q have a point in common
Meets(r, q) ==
    /\ Max(r.min[1], q.min[1]) <= Min(r.max[1], q.max[1])
    /\ Max(r.min[2], q.min[2]) <= Min(r.max[2], q.max[2])

\* the part of the world rectangle r inside chunk c, in the local coordinates
\* of c (for r that meets the footprint of c)
SplitFor(c, r) ==
    IRect(<<Max(r.min[1], Footprint(c).min[1]) - N * c[1],
            Max(r.min[2], Footprint(c).min[2]) - N * c[2]>>,
          <<Min(r.max[1], Footprint(c).max[1]) - N * c[1],
            Min(r.max[2], Footprint(c).max[2]) - N * c[2]>>)

\* C29: WorldGrid::stain(rect): into the stain of every loaded chunk whose
\* world footprint meets rect goes rect cut to that footprint, in the chunk's
\* local coordinates, so that the recorded stain gains no point outside the
\* chunk; every other loaded chunk keeps its stain; no cell changes.
C29_StainSplitPerChunk ==
    (call.op = "stain" /\ call.view = "WorldGrid") =>
        \A c \in Loaded :
            /\ chunks[c].data = call.before[c].data
            /\ Meets(IRect(call.first, call.second), Footprint(c)) =>
                  /\ chunks[c].stain.some
                  /\ chunks[c].stain.rect =
                        (IF call.before[c].stain.some
                         THEN rect_union(call.before[c].stain.rect,
                                         SplitFor(c, IRect(call.first, call.second)))
                         ELSE SplitFor(c, IRect(call.first, call.second)))
                  /\ \A p \in RectPoints(chunks[c].stain.rect) :
                         InBounds(p) \/ (/\ call.before[c].stain.some
                                         /\ p \in RectPoints(call.before[c].stain.rect))
            /\ ~ Meets(IRect(call.first, call.second), Footprint(c)) =>
                  chunks[c].stain = call.before[c].stain

\* world points around the loaded chunks
StainBox == (-1 .. N) \X (-N .. N)

\* C30: WorldGrid::stained() is in world coordinates: after stain_point(p),
\* or stain(rect) with p in rect, for a world point p of a loaded chunk,
\* is_stained(p) is true; it is false for every world point whose chunk has an
\* empty dirty region.
C30_StainedInWorldCoordinates ==
    (call.op \in {"stain", "stain_point"} /\ call.view = "WorldGrid") =>
        /\ \A p \in RectPoints(IRect(call.first, call.second)) :
              ChunkOf(p) \in Loaded => is_stained(WorldView(chunks), p)
        /\ \A q \in StainBox :
              (/\ ChunkOf(q) \in Loaded
               /\ Area_points(Chunk_stained(chunks[ChunkOf(q)])) = {}) =>
                  ~ is_stained(WorldView(chunks), q)

\* C31: a tick that stays inside its cell's declared range gets no
\* out-of-bounds error from its grid view: a point is ticked in the parallel
\* phase only when its whole translated range lies in its chunk, and in the
\* serial phase only when every point of the range lies in a loaded chunk, so
\* the only errors sent or logged are those the cell raises itself.
C31_NoOutOfBoundsInsideRange ==
    /\ \A d \in dispatch :
          /\ d.how = "tick" => \A q \in Reach(d.cell, d.point) : InBounds(q)
          /\ d.how = "serial" =>
                \A q \in Reach(d.cell, WorldOf(d.chunk, d.point)) : ChunkOf(q) \in Loaded
          /\ d.res = "Err" => d.cell = "Bad"
    /\ \A i \in 1 .. Len(sent.errors) : sent.errors[i].error.kind = "Cell"
    /\ \A i \in 1 .. Len(log) : log[i].error.kind = "Cell"

\* a serial tick has just swapped a cell across the edge between two chunks
\* without an error
C31_Witness ==
    /\ ev.op = "serial"
    /\ ev.ticked
    /\ ev.res = "Unstable"
    /\ Cardinality(ev.wrote) = 2
    /\ log = <<>>

\* C32: the emptiness check agrees with the traversal: is_empty() is true
\* exactly when the region holds no integer point (apply visits nothing and
\* contains is false everywhere), also for an inverted rectangle and a list
\* of such rectangles, and apply / apply_randomly never visit a point of an
\* inverted rectangle.
C32_EmptyIffNoPoint ==
    /\ call.op \in {"is_empty", "stain_is_empty"} =>
          (call.out <=> /\ Area_apply(call.area) = <<>>
                        /\ \A p \in AreaBox : ~Area_contains(call.area, p))
    /\ (/\ call.op \in {"apply", "apply_randomly"}
        /\ \A i \in 1 .. Len(call.area.rects) :
              \/ call.area.rects[i].min[1] > call.area.rects[i].max[1]
              \/ call.area.rects[i].min[2] > call.area.rects[i].max[2])
          => call.out = <<>>

\* the points of a chunk's dirty region when the step began
DirtyAtStart(c) == Area_points(Chunk_stained(frame.start[c]))

\* C33: within one discrete step every point is ticked at most once: the
\* parallel phase visits no point twice, a point it ticked is never sent on
\* the deferred channel, every deferred point is sent once and consumed at
\* most once, and only points that were dirty when the step began are
\* dispatched (points stained during the step wait for the next one).
C33_TickedAtMostOnce ==
    FrameSteps > 0 =>
        /\ \A c \in DOMAIN frame.order :
              /\ \A i \in 1 .. Len(frame.order[c]) : \A j \in 1 .. Len(frame.order[c]) :
                    frame.order[c][i] = frame.order[c][j] => i = j
              /\ \A i \in 1 .. Len(frame.order[c]) : frame.order[c][i] \in DirtyAtStart(c)
        /\ \A d \in dispatch :
              /\ d.point \in DirtyAtStart(d.chunk)
              /\ d.how = "tick" => Count(sent.to_tick, WorldOf(d.chunk, d.point)) = 0
              /\ d.how \in {"serial", "skip"} =>
                    Count(taken.to_tick, WorldOf(d.chunk, d.point)) = 1
        /\ \A i \in 1 .. Len(sent.to_tick) : Count(sent.to_tick, sent.to_tick[i]) = 1
        /\ \A i \in 1 .. Len(taken.to_tick) :
              /\ Count(taken.to_tick, taken.to_tick[i]) = 1
              /\ Count(sent.to_tick, taken.to_tick[i]) = 1

\* the serial phase has consumed a deferred point, another point was ticked
\* in the parallel phase, and a point stained during the step has not been
\* dispatched
C33_Witness ==
    /\ phase = "deferred"
    /\ taken.to_tick # <<>>
    /\ \E d \in dispatch : d.how = "tick"
    /\ \E c \in Loaded :
           \E p \in Area_points(Chunk_stained(chunks[c])) \ DirtyAtStart(c) :
               \A d \in dispatch : ~(d.chunk = c /\ d.point = p)

\* C34: at the end of every discrete step, every cell whose value differs
\* from its value at the start of the step (changed through get_mut, replace
\* or swap, against the chunk alone or across chunks) is in its chunk's dirty
\* region stained().
C34_ChangedCellsAreDirty ==
    StepEnded =>
        \A c \in Loaded : \A x \in 0 .. N - 1, y \in 0 .. N - 1 :
            Stored(chunks, WorldOf(c, <<x, y>>)) # Stored(frame.start, WorldOf(c, <<x, y>>))
                => Area_contains(Chunk_stained(chunks[c]), <<x, y>>)

\* a step has ended in which a serial tick moved a cell from one chunk into
\* another and a cell replaced itself in the parallel phase
C34_Witness ==
    /\ StepEnded
    /\ \E d \in dispatch : d.how = "serial" /\ d.res = "Unstable" /\ d.cell \in {"Fall", "Rise"}
    /\ \E d \in dispatch : d.how = "tick" /\ d.cell = "Melt"
    /\ \E c \in Loaded : \E x \in 0 .. N - 1, y \in 0 .. N - 1 :
           /\ Stored(frame.start, WorldOf(c, <<x, y>>)) = "Melt"
           /\ Stored(chunks, WorldOf(c, <<x, y>>)) = "Air"

\* no tick of the step so far returned anything but Stable, wrote a cell or
\* stained the grid (of the cells, Mark stains and Melt writes while Stable)
QuietSoFar ==
    \A d \in dispatch : d.how \in {"tick", "serial"} =>
        d.res = "Stable" /\ d.cell \notin {"Mark", "Melt"}

\* every loaded chunk had an empty dirty region when the step began
CleanAtStart == \A c \in Loaded : Area_is_empty(Chunk_stained(frame.start[c]))

\* C35: quiescence. A step in which every tick returns Stable and neither
\* writes nor stains ends with every loaded chunk's dirty region empty, also
\* for a chunk fresh from Chunk::new, all of whose N*N points are dispatched
\* in that step; a step that begins with every dirty region empty dispatches
\* no point, changes no cell and ends with every dirty region empty again.
C35_Quiescence ==
    /\ (StepEnded /\ QuietSoFar) =>
          /\ \A c \in Loaded :
                /\ Area_is_empty(Chunk_stained(chunks[c]))
                /\ Area_points(Chunk_stained(chunks[c])) = {}
                /\ frame.start[c].stain = Some(Chunk_area) =>
                      \A x \in 0 .. N - 1, y \in 0 .. N - 1 :
                          \E d \in dispatch : d.chunk = c /\ d.point = <<x, y>>
    /\ (FrameSteps > 0 /\ CleanAtStart) =>
          /\ dispatch = {}
          /\ sent.to_tick = <<>>
          /\ \A c \in Loaded : chunks[c] = frame.start[c]

\* the first step of a fresh chunk has ended quietly with all of its N*N
\* points dispatched and every dirty region empty
C35_Witness ==
    /\ StepEnded
    /\ QuietSoFar
    /\ \E c \in Loaded : frame.start[c].stain = Some(Chunk_area)
    /\ Cardinality(dispatch) = N * N
    /\ \A c \in Loaded : Area_is_empty(Chunk_stained(chunks[c]))

\* a later step has ended without dispatching a point
SettledStepEnded ==
    /\ StepEnded
    /\ steps = 2
    /\ CleanAtStart
    /\ dispatch = {}

\* what is left to do in a step: chunk tasks to start and to finish, points
\* to visit, channel items to drain, and the serial phases to pass
StepMeasure ==
    With({c \in Loaded : task[c] = "waiting"}, LAMBDA waiting :
    With({c \in Loaded : task[c] = "running"}, LAMBDA running :
    With({<<c, p>> \in Loaded \X RectPoints(IRect(<<-2, -2>>, <<N + 1, N + 1>>)) :
              task[c] = "running" /\ p \in pending[c]}, LAMBDA points :
        (2 + 2 * N * N) * Cardinality(waiting) + Cardinality(running)
            + 2 * Cardinality(points) + Len(to_tick)
            + (CASE phase = "parallel" -> 4 [] phase = "errors" -> 3
                 [] phase = "stains" -> 2 [] phase = "deferred" -> 1 [] OTHER -> 0))))

\* a step, once begun, makes progress with every action: the points to visit
\* are fixed when a task starts, no action adds a point to visit, and the
\* serial phase only takes from the deferred channel
StepProgress ==
    [][phase # "idle" =>
          /\ StepMeasure' < StepMeasure
          /\ \A c \in Loaded : task[c] = "running" => pending'[c] \subseteq pending[c]
          /\ phase = "deferred" => Len(to_tick') <= Len(to_tick) /\ sent' = sent]_vars

\* a step, once begun, ends at the accumulator update unless it panics
StepEndsOrPanics == (phase # "idle") ~> (StepEnded \/ phase = "panicked")

\* C36: every discrete step terminates: once begun, it always reaches the
\* accumulator update (line 268).
C36_StepTerminates == (phase # "idle") ~> StepEnded

\* the virtual ticks owed by the frames of a log: the sum of
\* tick_rate * elapsed, in 1/Scale
RECURSIVE SumOwed(_)
SumOwed(entries) ==
    IF entries = <<>> THEN 0
    ELSE entries[1].tick_rate * entries[1].delta_seconds + SumOwed(Tail(entries))

\* the virtual ticks owed so far, the frame in progress included
Owed == SumOwed(frames.log) + frames.tick_rate * frames.delta_seconds

\* every frame run so far is in the log or is the frame in progress
AllFramesRecorded ==
    \/ Recording(frames)
    \/ /\ frames.log # <<>>
       /\ phase = "idle"
       /\ ticks = frames.log[Len(frames.log)].after
       /\ steps = frames.log[Len(frames.log)].steps

\* C37: over any sequence of frames with non-negative tick rate and elapsed
\* time, from accumulator 0, the number of discrete steps run so far never
\* exceeds the whole number of virtual ticks owed so far (the floor of the sum
\* of tick_rate * elapsed), and the accumulator is never negative.
C37_StepsNeverExceedOwed ==
    /\ ticks >= 0
    /\ AllFramesRecorded =>
          /\ steps <= Owed \div Scale
          /\ phase = "idle" => ticks + steps * Scale <= Owed

\* three frames have ended in which steps ran and ticks owed were dropped:
\* fewer steps have run than whole ticks were owed
C37_Witness ==
    /\ Len(frames.log) = MaxOwedFrames
    /\ AllFramesRecorded
    /\ steps >= 2
    /\ steps < Owed \div Scale

\* the frames so far have run exactly as many steps as whole ticks were owed
OwedExactly ==
    /\ Len(frames.log) = MaxOwedFrames
    /\ AllFramesRecorded
    /\ steps >= 2
    /\ steps = Owed \div Scale

====
